---- MODULE Spec2Model ----
(***************************************************************************)
(* Model of the outbound message queue (MessageQueueManager, the file that *)
(* the services import as ./message-queue) of the OCM sharing app.         *)
(*                                                                         *)
(* The manager lives on a JavaScript event loop: every public method, every*)
(* timer callback and every continuation of processQueue after an await is *)
(* one atomic step.  processQueue is an async function, so the part of it  *)
(* up to its first await runs inside the handler that called it.           *)
(***************************************************************************)
EXTENDS Integers, Sequences, FiniteSets

VARIABLES
    msgs,          \* heap of QueuedMessage objects, indexed by creation number
    queue,         \* this.queue: the ids of the queued objects, in array order
    queueSignal,   \* the array held by the queue signal (what getQueue returns)
    isProcessing,  \* the isProcessing signal
    isOnline,      \* the isOnline signal of the manager
    passes,        \* the suspended processQueue invocations
    saved,         \* localStorage['message_queue']
    now,           \* Date.now(), in milliseconds
    ret,           \* what the API call of the last step returned, if observed
    halted,        \* the messages the last aborted pass left unattempted
    late,          \* the messages enqueued, or made pending again by a manual
                   \* retry, since the running pass started
    rcpt,          \* the recipient loop of the senders: whether it is
                   \* observed, and the number of recipients the sender in
                   \* flight has called the service for
    net,           \* the network status monitor: whether it is observed, its
                   \* status, its probes in flight, and the value the last
                   \* step resolved a forceCheck with
    blob,          \* what localStorage held under STORAGE_KEY at startup
    prevFail       \* whether the failures are observed and, if so, per
                   \* message: nextRetry - lastAttempt and the duration of
                   \* the sender call of its last failure

vars == <<msgs, queue, queueSignal, isProcessing, isOnline, passes, saved, now,
          ret, halted, late, prevFail, blob, net, rcpt>>

(***************************************************************************)
(* Bounds of the model.                                                    *)
(***************************************************************************)
MaxMsgs == 2          \* messages created in a run
MaxOrderMsgs == 3     \* messages created in a run of the ordering scenarios

MaxLiveMsgs == 3      \* messages created in a run of the progress scenarios
MaxSoloMsgs == 1      \* messages created in a run of the single-message scenarios
MaxGapMsgs == 1       \* messages created in a run of the backoff scenarios
MaxLoadMsgs == 2      \* messages loaded or created in a run of the startup scenarios
MaxProbes == 3        \* connectivity probes in flight at a time
MaxRcptMsgs == 1      \* messages created in a run of the recipient scenarios
PassHorizon == 3000   \* clock reading after which no manual retry is requested
MaxRecipients == 3    \* recipients of a message (data.to.length)
MaxRung == 8          \* attempt numbers for which the ladder is read

\* The readings of the clock, in milliseconds: the instants at which the
\* retries of a message that fails at once fall due, and the end of the delay
\* after its last attempt.
Instants == {0, 1000, 6000, 36000, 96000, 96500}

\* The readings of the clock in the ordering scenarios: messages created 5 s
\* apart, then a pass over three messages.
OrderInstants == {0, 5000, 10000, 10500, 11000}

\* The addresses messages are sent to.
Recipients == <<"a@example.com", "b@example.com", "c@example.com", "d@example.com">>

\* The data addMessage is called with for a message of the given type to n
\* recipients: the recipients and the text, the optional fields left out.
Payload(type, n) ==
    [ to |-> SubSeq(Recipients, 1, n), text |-> type, eventName |-> <<>> ]

\* The (type, priority) arguments addMessage is called with.
AddInputs == { <<"sms", "medium">>, <<"email", "high">> }

\* The (type, priority) arguments addMessage is called with in the ordering
\* scenarios.
OrderInputs == { <<"email", "high">>, <<"mms", "low">> }

\* The (type, priority) arguments addMessage is called with in the progress
\* scenarios.
LiveInputs == { <<"sms", "low">>, <<"email", "high">> }

(***************************************************************************)
(* Values.                                                                 *)
(***************************************************************************)
\* An optional field: <<>> is undefined, <<v>> is the value v.
None == <<>>
Some(v) == <<v>>

\* RETRY_DELAYS
RETRY_DELAYS == <<1000, 5000, 30000, 60000, 300000>>

\* maxAttempts: 5 in addMessage
DefaultMaxAttempts == 5

\* the setTimeout between two messages of a pass
InterMessageDelay == 500

\* The text of the error a failing sender throws.
SendError == "send failed"

NoRet == "none"
Unobserved == "unobserved"

Min(a, b) == IF a <= b THEN a ELSE b

\* priorityOrder = { high: 3, medium: 2, low: 1 }
priorityOrder(p) ==
    CASE p = "high" -> 3
      [] p = "medium" -> 2
      [] p = "low" -> 1

\* A comparator with the creation times the wrong way round.
Compare_NewestFirst(a, b) ==
    IF priorityOrder(a.priority) # priorityOrder(b.priority)
    THEN priorityOrder(b.priority) - priorityOrder(a.priority)
    ELSE b.createdAt - a.createdAt

\* The comparator of sortQueue and of the sort in processQueue.
Compare(a, b) ==
    IF priorityOrder(a.priority) # priorityOrder(b.priority)
    THEN priorityOrder(b.priority) - priorityOrder(a.priority)
    ELSE a.createdAt - b.createdAt

\* Array.prototype.sort is stable: an element goes after every element that
\* does not compare greater than it.
RECURSIVE InsertSorted(_, _, _)
InsertSorted(m, id, s) ==
    IF s = <<>> THEN <<id>>
    ELSE IF Compare(m[Head(s)], m[id]) <= 0
         THEN <<Head(s)>> \o InsertSorted(m, id, Tail(s))
         ELSE <<id>> \o s

RECURSIVE SortIds(_, _)
SortIds(m, s) ==
    IF s = <<>> THEN <<>>
    ELSE InsertSorted(m, s[Len(s)], SortIds(m, SubSeq(s, 1, Len(s) - 1)))

\* sortQueue
sortQueue(m, q) == SortIds(m, q)

Range(s) == { s[i] : i \in DOMAIN s }

\* A removal that drops the last element whatever the index.
RemoveAt_Pop(s, i) == SubSeq(s, 1, Len(s) - 1)

\* splice(i, 1): the sequence without its element i.
RemoveAt(s, i) == SubSeq(s, 1, i - 1) \o SubSeq(s, i + 1, Len(s))

(***************************************************************************)
(* The heap.  A message object is reachable from this.queue or from the    *)
(* pendingMessages array of a suspended processQueue, which still uses the *)
(* entries it has not finished.  An unreachable object is collected.       *)
(***************************************************************************)
Collected == [status |-> "collected"]

Live(q, ps) ==
    Range(q) \cup
    UNION { { ps[k].pending[j] :
                j \in (IF ps[k].pc = "sending" THEN ps[k].idx ELSE ps[k].idx + 1)
                        .. Len(ps[k].pending) } : k \in DOMAIN ps }

Collect(m, q, ps) ==
    [ i \in DOMAIN m |-> IF i \in Live(q, ps) THEN m[i] ELSE Collected ]

(***************************************************************************)
(* saveQueue: the serialisation written to localStorage.  Dates become     *)
(* their ISO strings, undefined fields are dropped by JSON.stringify.      *)
(***************************************************************************)
\* The characters of the decimal digits.
DigitChars == <<"0", "1", "2", "3", "4", "5", "6", "7", "8", "9">>

\* The number n written with w digits, zero-padded.
Digits(n, w) ==
    [ i \in 1..w |-> DigitChars[((n \div <<1, 10, 100, 1000>>[w - i + 1]) % 10) + 1] ]

\* The date (year, month, day) of the day number z, day 0 being 1970-01-01,
\* in the proleptic Gregorian calendar.
CivilFromDays(z) ==
    LET z1 == z + 719468
        era == z1 \div 146097
        doe == z1 - era * 146097
        yoe == (doe - doe \div 1460 + doe \div 36524 - doe \div 146096) \div 365
        doy == doe - (365 * yoe + yoe \div 4 - yoe \div 100)
        mp == (5 * doy + 2) \div 153
        mo == IF mp < 10 THEN mp + 3 ELSE mp - 9
    IN [ y |-> yoe + era * 400 + (IF mo <= 2 THEN 1 ELSE 0),
         m |-> mo,
         d |-> doy - (153 * mp + 2) \div 5 + 1 ]

\* Date.prototype.toISOString of the instant t (milliseconds since
\* 1970-01-01T00:00:00Z, negative before): the 24 characters
\* YYYY-MM-DDTHH:mm:ss.sssZ, for the years 0000 to 9999.
toISOString(t) ==
    LET c == CivilFromDays(t \div 86400000)
        ms == t % 86400000
    IN Digits(c.y, 4) \o <<"-">> \o Digits(c.m, 2) \o <<"-">> \o Digits(c.d, 2)
       \o <<"T">> \o Digits(ms \div 3600000, 2)
       \o <<":">> \o Digits((ms \div 60000) % 60, 2)
       \o <<":">> \o Digits((ms \div 1000) % 60, 2)
       \o <<".">> \o Digits(ms % 1000, 3) \o <<"Z">>

SerializeMsg(r) ==
    [ id |-> r.id, type |-> r.type, status |-> r.status, priority |-> r.priority,
      data |-> r.data,
      attempts |-> r.attempts, maxAttempts |-> r.maxAttempts, error |-> r.error,
      createdAt |-> toISOString(r.createdAt),
      lastAttempt |-> IF r.lastAttempt = None THEN None
                      ELSE Some(toISOString(r.lastAttempt[1])),
      nextRetry |-> IF r.nextRetry = None THEN None
                    ELSE Some(toISOString(r.nextRetry[1])) ]

saveQueue(m, q) == [ i \in DOMAIN q |-> SerializeMsg(m[q[i]]) ]

\* What localStorage.getItem gives: nothing ("missing"), a text that is not
\* JSON ("text"), the JSON of a value that is not a list ("value"), or the
\* JSON of a list ("array") with its items.
NoBlob == [kind |-> "missing", items |-> <<>>]

\* The JSON value null as an item of a list.
NullItem == [null |-> TRUE]

\* The number a sequence of digit characters writes.
NumberOf(cs) ==
    LET DigitOf(c) == (CHOOSE i \in DOMAIN DigitChars : DigitChars[i] = c) - 1
        n == Len(cs)
        Val[i \in 0..n] == IF i = 0 THEN 0 ELSE 10 * Val[i - 1] + DigitOf(cs[i])
    IN Val[n]

\* The day number of the date (y, m, d), day 0 being 1970-01-01.
DaysFromCivil(y, m, d) ==
    LET y1 == IF m <= 2 THEN y - 1 ELSE y
        era == y1 \div 400
        yoe == y1 - era * 400
        doy == (153 * (IF m > 2 THEN m - 3 ELSE m + 9) + 2) \div 5 + d - 1
        doe == yoe * 365 + yoe \div 4 - yoe \div 100 + doy
    IN era * 146097 + doe - 719468

\* A date read back without its milliseconds.
parseDate_Seconds(s) ==
    DaysFromCivil(NumberOf(SubSeq(s, 1, 4)), NumberOf(SubSeq(s, 6, 7)),
                  NumberOf(SubSeq(s, 9, 10))) * 86400000
    + NumberOf(SubSeq(s, 12, 13)) * 3600000
    + NumberOf(SubSeq(s, 15, 16)) * 60000
    + NumberOf(SubSeq(s, 18, 19)) * 1000

\* new Date(s) of a string YYYY-MM-DDTHH:mm:ss.sssZ: the instant it names,
\* in milliseconds since 1970-01-01T00:00:00Z.
parseDate(s) ==
    DaysFromCivil(NumberOf(SubSeq(s, 1, 4)), NumberOf(SubSeq(s, 6, 7)),
                  NumberOf(SubSeq(s, 9, 10))) * 86400000
    + NumberOf(SubSeq(s, 12, 13)) * 3600000
    + NumberOf(SubSeq(s, 15, 16)) * 60000
    + NumberOf(SubSeq(s, 18, 19)) * 1000
    + NumberOf(SubSeq(s, 21, 23))

\* An entry read back: the fields as saved, the three dates rebuilt.
DeserializeMsg(r) ==
    [ r EXCEPT !.createdAt = parseDate(r.createdAt),
               !.lastAttempt = IF r.lastAttempt = None THEN None
                               ELSE Some(parseDate(r.lastAttempt[1])),
               !.nextRetry = IF r.nextRetry = None THEN None
                             ELSE Some(parseDate(r.nextRetry[1])) ]

\* A load that keeps the entries read before one that cannot be read.
loadQueue_Partial(b) ==
    IF b.kind # "array" THEN <<>>
    ELSE LET bad == { i \in DOMAIN b.items : b.items[i] = NullItem }
             n == IF bad = {} THEN Len(b.items)
                  ELSE (CHOOSE i \in bad : \A j \in bad : i <= j) - 1
         IN [ i \in 1..n |-> DeserializeMsg(b.items[i]) ]

\* loadQueue: the messages of this.queue after the constructor's load.  With
\* nothing saved the queue stays as initialised; JSON.parse of a text that is
\* not JSON throws, map of a value that is not a list throws, and so does the
\* read of createdAt of a null item: the catch empties the queue.
loadQueue(b) ==
    IF b.kind = "missing" THEN <<>>
    ELSE IF b.kind = "text" THEN <<>>
    ELSE IF b.kind = "value" THEN <<>>
    ELSE IF \E i \in DOMAIN b.items : b.items[i] = NullItem THEN <<>>
    ELSE [ i \in DOMAIN b.items |-> DeserializeMsg(b.items[i]) ]

\* The heap and the queue of a list of loaded messages.
HeapOf(l) ==
    [ id \in 1..Len(l) |-> l[CHOOSE i \in DOMAIN l : l[i].id = id] ]

QueueOf(l) == [ i \in DOMAIN l |-> l[i].id ]

(***************************************************************************)
(* The dispatcher: processQueue and processMessage.                        *)
(***************************************************************************)
\* A filter that also takes the failed messages.
isEligible_AlsoFailed(r, t) ==
    \/ r.status = "pending"
    \/ r.status = "failed"
    \/ r.status = "retrying" /\ r.nextRetry # None /\ t >= r.nextRetry[1]

\* A filter that takes a retrying message without looking at the clock.
isEligible_NoWait(r, t) ==
    \/ r.status = "pending"
    \/ r.status = "retrying"

\* The filter of processQueue: pending, or retrying with nextRetry reached.
isEligible(r, t) ==
    \/ r.status = "pending"
    \/ r.status = "retrying" /\ r.nextRetry # None /\ t >= r.nextRetry[1]

\* pendingMessages of processQueue: the filter, then the sort of the copy.
pendingMessages(m, q, t) ==
    SortIds(m, SelectSeq(q, LAMBDA id : isEligible(m[id], t)))

\* A guard that forgets the isProcessing flag.
CanStartPass_NoFlag(proc, online) == online

\* The guard at the top of processQueue (its negation is the early return).
CanStartPass(proc, online) == ~proc /\ online

\* A loop that does not look at the connectivity.
LoopOnline_Always(online) == TRUE

\* The test at the top of the loop body of processQueue.
LoopOnline(online) == online

\* An attempt that is not counted.
StartMessage_NoCount(m, id, t) ==
    [m EXCEPT ![id].status = "sending",
              ![id].lastAttempt = Some(t)]

\* processMessage up to its await: the message becomes sending and the
\* sender of its type is called.
StartMessage(m, id, t) ==
    [m EXCEPT ![id].status = "sending",
              ![id].lastAttempt = Some(t),
              ![id].attempts = @ + 1]

\* A test of the catch block that gives up one attempt early.
AttemptsExhausted_Early(r) == r.attempts >= r.maxAttempts - 1

\* An off-by-one in the test of the catch block.
AttemptsExhausted_Late(r) == r.attempts > r.maxAttempts

\* The status a failed attempt leaves: failed once the attempts are used up.
AttemptsExhausted(r) == r.attempts >= r.maxAttempts

\* A ladder indexed by the attempt number as it stands.
RetryDelay_ByAttempts(attempts) ==
    RETRY_DELAYS[Min(attempts + 1, Len(RETRY_DELAYS))]

\* A ladder that is never climbed.
RetryDelay_FirstRung(attempts) ==
    RETRY_DELAYS[1]

\* The delay of a retry: RETRY_DELAYS[Math.min(attempts - 1, length - 1)].
RetryDelay(attempts) ==
    RETRY_DELAYS[Min(attempts - 1, Len(RETRY_DELAYS) - 1) + 1]

\* A success that leaves the error of an earlier attempt.
RecordSuccess_KeepError(m, id) ==
    [m EXCEPT ![id].status = "sent"]

\* A success that forgets to set the status.
RecordSuccess_NoStatus(m, id) ==
    [m EXCEPT ![id].error = None]

\* processMessage after a sender that returned true.
RecordSuccess(m, id) ==
    [m EXCEPT ![id].status = "sent", ![id].error = None]

\* A catch block that schedules no retry.
RecordFailure_NoNextRetry(m, id, t) ==
    IF AttemptsExhausted(m[id])
    THEN [m EXCEPT ![id].error = Some(SendError), ![id].status = "failed"]
    ELSE [m EXCEPT ![id].error = Some(SendError), ![id].status = "retrying"]

\* processMessage after a sender that threw (the catch block).
RecordFailure(m, id, t) ==
    IF AttemptsExhausted(m[id])
    THEN [m EXCEPT ![id].error = Some(SendError), ![id].status = "failed"]
    ELSE [m EXCEPT ![id].error = Some(SendError), ![id].status = "retrying",
                   ![id].nextRetry = Some(t + RetryDelay(m[id].attempts))]

\* A loop that, at the end of its selection, selects again from the queue and
\* goes on (a pass that runs until nothing is eligible).
LoopFrom_Reselect(m, proc, others, pend, i, online, t) ==
    LET again == pendingMessages(m, queue, t)
        p == IF i > Len(pend) /\ again # <<>> THEN again ELSE pend
        j == IF i > Len(pend) /\ again # <<>> THEN 1 ELSE i
    IN  IF j > Len(p) \/ ~LoopOnline(online)
        THEN [msgs |-> m, isProcessing |-> FALSE, passes |-> others]
        ELSE [msgs |-> StartMessage(m, p[j], t),
              isProcessing |-> proc,
              passes |-> Append(others,
                           [pending |-> p, idx |-> j, pc |-> "sending", wake |-> 0])]

\* A loop that leaves the isProcessing flag set when it ends.
LoopFrom_KeepFlag(m, proc, others, pend, i, online, t) ==
    IF i > Len(pend) \/ ~LoopOnline(online)
    THEN [msgs |-> m, isProcessing |-> proc, passes |-> others]
    ELSE [msgs |-> StartMessage(m, pend[i], t),
          isProcessing |-> proc,
          passes |-> Append(others,
                       [pending |-> pend, idx |-> i, pc |-> "sending", wake |-> 0])]

\* A loop that is left when the attempt before failed (the error of a sender
\* escaping processMessage).
LoopFrom_StopAfterFailure(m, proc, others, pend, i, online, t) ==
    IF \/ i > Len(pend) \/ ~LoopOnline(online)
       \/ (i > 1 /\ m[pend[i - 1]].status \in {"retrying", "failed"})
    THEN [msgs |-> m, isProcessing |-> FALSE, passes |-> others]
    ELSE [msgs |-> StartMessage(m, pend[i], t),
          isProcessing |-> proc,
          passes |-> Append(others,
                       [pending |-> pend, idx |-> i, pc |-> "sending", wake |-> 0])]

\* The for loop of processQueue, entered at message i of the pass `pend`:
\* it ends the pass (the flag is reset) after the last message or when the
\* manager is offline, and otherwise starts message i and suspends.
\* `others` are the other suspended invocations.
LoopFrom(m, proc, others, pend, i, online, t) ==
    IF i > Len(pend) \/ ~LoopOnline(online)
    THEN [msgs |-> m, isProcessing |-> FALSE, passes |-> others]
    ELSE [msgs |-> StartMessage(m, pend[i], t),
          isProcessing |-> proc,
          passes |-> Append(others,
                       [pending |-> pend, idx |-> i, pc |-> "sending", wake |-> 0])]

\* processQueue, from its call to its first await (or its return).
processQueue(m, q, proc, ps, online, t) ==
    IF ~CanStartPass(proc, online)
    THEN [msgs |-> m, isProcessing |-> proc, passes |-> ps]
    ELSE LET pend == pendingMessages(m, q, t) IN
         IF Len(pend) = 0
         THEN [msgs |-> m, isProcessing |-> proc, passes |-> ps]
         ELSE LoopFrom(m, TRUE, ps, pend, 1, online, t)

\* The value of ret after a step: the result of the API call the step made,
\* when the run observes return values.
Ret(op, val) ==
    IF ret.op = Unobserved THEN ret ELSE [op |-> op, val |-> val]

\* halted after a step that took the suspended invocations from ps0 to ps1:
\* a new pass forgets the remainder of the aborted one.
HaltedAfter(ps0, ps1) == IF ps0 = <<>> /\ ps1 # <<>> THEN <<>> ELSE halted

\* late after a step that took the suspended invocations from ps0 to ps1 and
\* the queue to q1, `more` being the messages the step enqueued or made
\* pending again: they count when the pass that was running goes on.
LateAfter(ps0, ps1, q1, more) ==
    IF ps0 # <<>> /\ ps1 # <<>> THEN (late \cup more) \cap Range(q1) ELSE {}

\* The sender of a message with n recipients that has called the service at
\* times, once per recipient from the first, returns true when the call it
\* awaits resolves and it was the one for the last recipient.
LastRecipient_First(n, at) == TRUE

LastRecipient(n, at) == at >= n

\* rcpt after a step from the heap m0 that leaves the suspended invocations
\* ps1: a sender called in the step awaits the import of its service module
\* and has called the service for no recipient yet, a sender called before
\* goes on where it was.
RcptAfter(m0, ps1) ==
    IF ~rcpt.observed THEN rcpt
    ELSE LET inFlight == { k \in DOMAIN ps1 : ps1[k].pc = "sending" } IN
         IF inFlight = {} THEN [rcpt EXCEPT !.at = 0]
         ELSE LET k == CHOOSE j \in inFlight : TRUE
                  id == ps1[k].pending[ps1[k].idx]
              IN IF id \in DOMAIN m0 /\ m0[id] # Collected /\ m0[id].status = "sending"
                 THEN rcpt
                 ELSE [rcpt EXCEPT !.at = 0]

\* The entries f of prevFail after a step that leaves the heap m1: a message
\* keeps its entry while its run of failures goes on (it waits for a retry or
\* is in the attempt that follows).
FailsKept(m1, f) ==
    [ i \in DOMAIN f |->
        IF m1[i] # Collected /\ m1[i].status \in {"retrying", "sending"}
        THEN f[i] ELSE None ]

\* prevFail after a step that does not end an attempt.
FailsAfter(m1) ==
    IF prevFail.on
    THEN [prevFail EXCEPT !.of = FailsKept(m1, prevFail.of)] ELSE prevFail

\* prevFail after addMessage.
FailsAfterAdd(m1) ==
    IF prevFail.on
    THEN [prevFail EXCEPT !.of = FailsKept(m1, Append(prevFail.of, None))]
    ELSE prevFail

\* prevFail after a manual retry of message id.
FailsAfterRetry(m1, id) ==
    IF prevFail.on
    THEN [prevFail EXCEPT !.of = FailsKept(m1, [prevFail.of EXCEPT ![id] = None])]
    ELSE prevFail

\* prevFail after the failure, at time t, of the attempt on message id.
FailsAfterFailure(m1, id, t) ==
    IF prevFail.on
    THEN [prevFail EXCEPT !.of =
            FailsKept(m1, [prevFail.of EXCEPT ![id] =
                IF m1[id] # Collected /\ m1[id].status = "retrying"
                THEN <<m1[id].nextRetry[1] - m1[id].lastAttempt[1],
                       t - m1[id].lastAttempt[1]>>
                ELSE None])]
    ELSE prevFail

\* The queue signal after a step that called processQueue or resumed its loop
\* with the suspended invocations ps0, leaving ps1: processMessage publishes
\* a copy of this.queue (setQueueSignal) when it starts a message, and
\* otherwise the signal keeps its array.
SignalAfter(ps0, ps1) == IF Len(ps1) > Len(ps0) THEN queue ELSE queueSignal

\* The recipient loop left out: a sender call returns or throws as a whole.
RcptUnobserved == [observed |-> FALSE, at |-> 0]

\* The monitor left out: its status signal is an input of the network effect.
NetUnobserved ==
    [observed |-> FALSE, isOnline |-> FALSE, probes |-> <<>>, result |-> None]

(***************************************************************************)
(* The state after construction: nothing is stored, loadQueue leaves the   *)
(* queue empty, the effect of the constructor runs saveQueue once.         *)
(***************************************************************************)
Constructed ==
    /\ msgs = <<>>
    /\ queue = <<>>
    /\ queueSignal = <<>>
    /\ isProcessing = FALSE
    /\ isOnline \in BOOLEAN
    /\ passes = <<>>
    /\ saved = saveQueue(<<>>, <<>>)
    /\ now = 0
    /\ halted = <<>>
    /\ late = {}
    /\ blob = NoBlob
    /\ net = NetUnobserved
    /\ rcpt = RcptUnobserved

Init ==
    Constructed /\ ret = [op |-> Unobserved, val |-> 0] /\ prevFail = [on |-> FALSE, of |-> <<>>]

InitApi ==
    Constructed /\ ret = [op |-> NoRet, val |-> 0] /\ prevFail = [on |-> FALSE, of |-> <<>>]

\* The same state with the failures of each message observed.
InitGap ==
    Constructed /\ ret = [op |-> Unobserved, val |-> 0] /\ prevFail = [on |-> TRUE, of |-> <<>>]

(***************************************************************************)
(* The Queue API.                                                          *)
(***************************************************************************)
\* A new message that counts its enqueueing as an attempt.
NewMessage_CountsFirst(id, type, data, priority, t) ==
    [ id |-> id, type |-> type, status |-> "pending", priority |-> priority,
      data |-> data,
      createdAt |-> t, lastAttempt |-> None, nextRetry |-> None,
      attempts |-> 1, maxAttempts |-> DefaultMaxAttempts, error |-> None ]

\* The message object addMessage builds.
NewMessage(id, type, data, priority, t) ==
    [ id |-> id, type |-> type, status |-> "pending", priority |-> priority,
      data |-> data,
      createdAt |-> t, lastAttempt |-> None, nextRetry |-> None,
      attempts |-> 0, maxAttempts |-> DefaultMaxAttempts, error |-> None ]

\* A message as a previous run left it in the queue: created at t, in the
\* given status (a failed one after the five attempts of the ladder).
AtRest(id, priority, status, t) ==
    LET r == NewMessage(id, "sms", Payload("sms", 1), priority, t) IN
    CASE status = "pending"  -> r
      [] status = "sending"  -> [r EXCEPT !.status = status, !.attempts = 1,
                                          !.lastAttempt = Some(t)]
      [] status = "sent"     -> [r EXCEPT !.status = status, !.attempts = 1,
                                          !.lastAttempt = Some(t)]
      [] status = "retrying" -> [r EXCEPT !.status = status, !.attempts = 1,
                                          !.lastAttempt = Some(t),
                                          !.nextRetry = Some(t + RETRY_DELAYS[1]),
                                          !.error = Some(SendError)]
      [] status = "failed"   -> [r EXCEPT !.status = status,
                                          !.attempts = DefaultMaxAttempts,
                                          !.lastAttempt = Some(t + 96000),
                                          !.nextRetry = Some(t + 96000),
                                          !.error = Some(SendError)]

\* The queues a previous run saved: up to MaxLoadMsgs messages, an older one
\* of low priority and a newer one of high priority, sorted.
SavedQueues ==
    LET Stat == {"pending", "sending", "sent", "retrying", "failed"}
        One == { <<AtRest(1, "low", st, -200000)>> : st \in Stat }
        Two == { <<AtRest(2, "high", s2, -199000), AtRest(1, "low", s1, -200000)>> :
                    s1 \in Stat, s2 \in Stat }
    IN {<<>>} \cup One \cup (IF MaxLoadMsgs >= 2 THEN Two ELSE {})

\* What localStorage holds at startup.
Blobs ==
    { NoBlob, [kind |-> "text", items |-> <<>>], [kind |-> "value", items |-> <<>>],
      [kind |-> "array", items |-> <<NullItem>>],
      [kind |-> "array",
       items |-> <<SerializeMsg(AtRest(1, "low", "pending", -200000)), NullItem>>] }
    \cup { [kind |-> "array", items |-> [ i \in DOMAIN l |-> SerializeMsg(l[i]) ]] :
             l \in SavedQueues }

\* The state after the constructor, with b in localStorage: the queue is
\* loaded, the connectivity is read, the poll timer is set, and the effect
\* saves the queue once.
ConstructedFrom(b) ==
    LET l == loadQueue(b) IN
    /\ msgs = HeapOf(l)
    /\ queue = QueueOf(l)
    /\ queueSignal = QueueOf(l)
    /\ isProcessing = FALSE
    /\ isOnline \in BOOLEAN
    /\ passes = <<>>
    /\ saved = saveQueue(HeapOf(l), QueueOf(l))
    /\ now = 0
    /\ halted = <<>>
    /\ late = {}
    /\ blob = b
    /\ net = NetUnobserved
    /\ rcpt = RcptUnobserved

InitLoad ==
    /\ \E b \in Blobs : ConstructedFrom(b)
    /\ ret = [op |-> Unobserved, val |-> 0]
    /\ prevFail = [on |-> FALSE, of |-> <<>>]

addMessage(type, data, priority) ==
    /\ LET id == Len(msgs) + 1
           m1 == Append(msgs, NewMessage(id, type, data, priority, now))
           q1 == sortQueue(m1, Append(queue, id))
           r  == IF isOnline
                 THEN processQueue(m1, q1, isProcessing, passes, isOnline, now)
                 ELSE [msgs |-> m1, isProcessing |-> isProcessing, passes |-> passes]
       IN /\ msgs' = Collect(r.msgs, q1, r.passes)
          /\ queue' = q1
          /\ queueSignal' = q1
          /\ isProcessing' = r.isProcessing
          /\ passes' = r.passes
          /\ halted' = HaltedAfter(passes, r.passes)
          /\ late' = LateAfter(passes, r.passes, q1, {id})
          /\ ret' = Ret("addMessage", id)
    /\ UNCHANGED <<isOnline, saved, now>>
    /\ prevFail' = FailsAfterAdd(msgs')
    /\ UNCHANGED <<blob, net>>
    /\ rcpt' = RcptAfter(msgs, passes')

\* findIndex / find: the position of the message with this id, 0 if none.
IndexOf(q, id) ==
    IF \E i \in DOMAIN q : q[i] = id
    THEN CHOOSE i \in DOMAIN q : q[i] = id
    ELSE 0

removeMessage(id) ==
    /\ LET index == IndexOf(queue, id) IN
       IF index # 0
       THEN /\ queue' = RemoveAt(queue, index)
            /\ queueSignal' = RemoveAt(queue, index)
            /\ msgs' = Collect(msgs, RemoveAt(queue, index), passes)
            /\ late' = LateAfter(passes, passes, RemoveAt(queue, index), {})
            /\ ret' = Ret("removeMessage", TRUE)
       ELSE /\ UNCHANGED <<msgs, queue, queueSignal, late>>
            /\ ret' = Ret("removeMessage", FALSE)
    /\ UNCHANGED <<isProcessing, isOnline, passes, saved, now, halted>>
    /\ prevFail' = FailsAfter(msgs')
    /\ UNCHANGED <<blob, net>>
    /\ rcpt' = RcptAfter(msgs, passes')

\* A retry that also takes the sent messages.
CanRetry_AlsoSent(status) == status = "failed" \/ status = "retrying" \/ status = "sent"

\* A retry that also takes a message whose attempt is in flight.
CanRetry_AlsoSending(status) ==
    status = "failed" \/ status = "retrying" \/ status = "sending"

\* The statuses retryMessage acts on.
CanRetry(status) == status = "failed" \/ status = "retrying"

\* A retry that forgets to reset the attempts.
ResetForRetry_KeepAttempts(m, id) ==
    [m EXCEPT ![id].status = "pending",
              ![id].error = None,
              ![id].nextRetry = None]

\* A retry that leaves the error of the last failure.
ResetForRetry_KeepError(m, id) ==
    [m EXCEPT ![id].status = "pending",
              ![id].attempts = 0,
              ![id].nextRetry = None]

\* The fields retryMessage resets.
ResetForRetry(m, id) ==
    [m EXCEPT ![id].status = "pending",
              ![id].attempts = 0,
              ![id].error = None,
              ![id].nextRetry = None]

retryMessage(id) ==
    /\ IF IndexOf(queue, id) # 0 /\ CanRetry(msgs[id].status)
       THEN LET m1 == ResetForRetry(msgs, id)
                r  == IF isOnline
                      THEN processQueue(m1, queue, isProcessing, passes, isOnline, now)
                      ELSE [msgs |-> m1, isProcessing |-> isProcessing,
                            passes |-> passes]
            IN /\ msgs' = Collect(r.msgs, queue, r.passes)
               /\ queueSignal' = queue
               /\ isProcessing' = r.isProcessing
               /\ passes' = r.passes
               /\ halted' = HaltedAfter(passes, r.passes)
               /\ late' = LateAfter(passes, r.passes, queue, {id})
               /\ ret' = Ret("retryMessage", TRUE)
               /\ prevFail' = FailsAfterRetry(msgs', id)
               /\ UNCHANGED <<blob, net>>
               /\ rcpt' = RcptAfter(msgs, passes')
       ELSE /\ UNCHANGED <<msgs, queueSignal, isProcessing, passes, halted, late>>
            /\ ret' = Ret("retryMessage", FALSE)
            /\ prevFail' = FailsAfter(msgs')
            /\ UNCHANGED <<blob, net>>
            /\ rcpt' = RcptAfter(msgs, passes')
    /\ UNCHANGED <<queue, isOnline, saved, now>>

\* A count of the messages that stay instead of the messages that go.
CountStatus_Remaining(m, q, status) ==
    Cardinality({ i \in DOMAIN q : m[q[i]].status # status })

\* filter(msg => msg.status === status).length
CountStatus(m, q, status) == Cardinality({ i \in DOMAIN q : m[q[i]].status = status })

clearSentMessages ==
    /\ LET q1 == SelectSeq(queue, LAMBDA id : msgs[id].status # "sent") IN
       /\ queue' = q1
       /\ queueSignal' = q1
       /\ msgs' = Collect(msgs, q1, passes)
       /\ late' = LateAfter(passes, passes, q1, {})
    /\ ret' = Ret("clearSentMessages", CountStatus(msgs, queue, "sent"))
    /\ UNCHANGED <<isProcessing, isOnline, passes, saved, now, halted>>
    /\ prevFail' = FailsAfter(msgs')
    /\ UNCHANGED <<blob, net>>
    /\ rcpt' = RcptAfter(msgs, passes')

clearFailedMessages ==
    /\ LET q1 == SelectSeq(queue, LAMBDA id : msgs[id].status # "failed") IN
       /\ queue' = q1
       /\ queueSignal' = q1
       /\ msgs' = Collect(msgs, q1, passes)
       /\ late' = LateAfter(passes, passes, q1, {})
    /\ ret' = Ret("clearFailedMessages", CountStatus(msgs, queue, "failed"))
    /\ UNCHANGED <<isProcessing, isOnline, passes, saved, now, halted>>
    /\ prevFail' = FailsAfter(msgs')
    /\ UNCHANGED <<blob, net>>
    /\ rcpt' = RcptAfter(msgs, passes')

\* Statistics that leave the sent messages out of the total.
getStats_TotalUnsent(m, sig) ==
    [ total    |-> Len(sig) - CountStatus(m, sig, "sent"),
      pending  |-> CountStatus(m, sig, "pending"),
      sending  |-> CountStatus(m, sig, "sending"),
      sent     |-> CountStatus(m, sig, "sent"),
      failed   |-> CountStatus(m, sig, "failed"),
      retrying |-> CountStatus(m, sig, "retrying") ]

\* getStats: the counts by status over the array of the queue signal, whose
\* elements are the message objects of the heap.
getStats(m, sig) ==
    [ total    |-> Len(sig),
      pending  |-> CountStatus(m, sig, "pending"),
      sending  |-> CountStatus(m, sig, "sending"),
      sent     |-> CountStatus(m, sig, "sent"),
      failed   |-> CountStatus(m, sig, "failed"),
      retrying |-> CountStatus(m, sig, "retrying") ]

(***************************************************************************)
(* Timers, the network effect and the continuations of a pass.             *)
(***************************************************************************)
\* The setInterval callback of startProcessing.
PollTimer ==
    /\ isOnline /\ ~isProcessing
    /\ LET r == processQueue(msgs, queue, isProcessing, passes, isOnline, now) IN
       /\ msgs' = Collect(r.msgs, queue, r.passes)
       /\ queueSignal' = SignalAfter(passes, r.passes)
       /\ isProcessing' = r.isProcessing
       /\ passes' = r.passes
       /\ halted' = HaltedAfter(passes, r.passes)
       /\ late' = LateAfter(passes, r.passes, queue, {})
    /\ ret' = Ret(NoRet, 0)
    /\ UNCHANGED <<queue, isOnline, saved, now>>
    /\ prevFail' = FailsAfter(msgs')
    /\ UNCHANGED <<blob, net>>
    /\ rcpt' = RcptAfter(msgs, passes')

\* An effect that leaves the restart of the processing to the poll timer.
CameOnline_Never(wasOnline, nowOnline) == FALSE

\* The test of the effect for "we just came back online".
CameOnline(wasOnline, nowOnline) == ~wasOnline /\ nowOnline

\* The effect of setupNetworkDetection, run when the network status signal
\* changes to nowOnline.
setupNetworkDetection(nowOnline) ==
    IF isOnline # nowOnline
    THEN /\ isOnline' = nowOnline
         /\ LET r == IF CameOnline(isOnline, nowOnline)
                     THEN processQueue(msgs, queue, isProcessing, passes, nowOnline, now)
                     ELSE [msgs |-> msgs, isProcessing |-> isProcessing,
                           passes |-> passes]
            IN /\ msgs' = Collect(r.msgs, queue, r.passes)
               /\ queueSignal' = SignalAfter(passes, r.passes)
               /\ isProcessing' = r.isProcessing
               /\ passes' = r.passes
               /\ halted' = HaltedAfter(passes, r.passes)
               /\ late' = LateAfter(passes, r.passes, queue, {})
         /\ ret' = Ret(NoRet, 0)
         /\ UNCHANGED <<queue, saved, now>>
         /\ prevFail' = FailsAfter(msgs')
         /\ UNCHANGED blob
         /\ rcpt' = RcptAfter(msgs, passes')
    ELSE UNCHANGED <<msgs, queue, queueSignal, isProcessing, isOnline, passes,
                     saved, now, ret, halted, late, prevFail, blob, rcpt>>

\* The network status signal changes to nowOnline, the monitor being left out.
NetworkEffect(nowOnline) ==
    /\ isOnline # nowOnline
    /\ setupNetworkDetection(nowOnline)
    /\ UNCHANGED net

\* The import of the service module awaited by the sender of the message in
\* flight resolves: the loop of sendEmail, sendSms or sendMms is entered and
\* calls the service for the first recipient, whatever the connectivity is
\* by then.
ImportResolves(k) ==
    /\ rcpt.observed
    /\ passes[k].pc = "sending"
    /\ rcpt.at = 0
    /\ ~LastRecipient(Len(msgs[passes[k].pending[passes[k].idx]].data.to), rcpt.at)
    /\ rcpt' = [rcpt EXCEPT !.at = 1]
    /\ UNCHANGED <<msgs, queue, queueSignal, isProcessing, isOnline, passes,
                   saved, now, ret, halted, late, prevFail, blob, net>>

\* The send to a recipient of the message in flight succeeds and it is not
\* the last one: the loop of sendEmail, sendSms or sendMms calls the service
\* for the next recipient.
RecipientSucceeds(k) ==
    /\ rcpt.observed
    /\ passes[k].pc = "sending"
    /\ rcpt.at >= 1
    /\ ~LastRecipient(Len(msgs[passes[k].pending[passes[k].idx]].data.to), rcpt.at)
    /\ rcpt' = [rcpt EXCEPT !.at = @ + 1]
    /\ UNCHANGED <<msgs, queue, queueSignal, isProcessing, isOnline, passes,
                   saved, now, ret, halted, late, prevFail, blob, net>>

\* The sender of the message in flight returns true: processMessage records
\* the success and processQueue waits InterMessageDelay.
SendSucceeds(k) ==
    /\ passes[k].pc = "sending"
    /\ rcpt.observed =>
          LastRecipient(Len(msgs[passes[k].pending[passes[k].idx]].data.to), rcpt.at)
    /\ LET ps1 == [passes EXCEPT ![k].pc = "delay",
                                  ![k].wake = now + InterMessageDelay] IN
       /\ msgs' = Collect(RecordSuccess(msgs, passes[k].pending[passes[k].idx]),
                          queue, ps1)
       /\ passes' = ps1
    /\ queueSignal' = queue
    /\ ret' = Ret(NoRet, 0)
    /\ UNCHANGED <<queue, isProcessing, isOnline, saved, now, halted, late>>
    /\ prevFail' = FailsAfter(msgs')
    /\ UNCHANGED <<blob, net>>
    /\ rcpt' = RcptAfter(msgs, passes')

\* The sender of the message in flight throws: the import of the service
\* module or the call of the service for a recipient was rejected.
SendFails(k) ==
    /\ passes[k].pc = "sending"
    /\ LET ps1 == [passes EXCEPT ![k].pc = "delay",
                                  ![k].wake = now + InterMessageDelay] IN
       /\ msgs' = Collect(RecordFailure(msgs, passes[k].pending[passes[k].idx], now),
                          queue, ps1)
       /\ passes' = ps1
    /\ queueSignal' = queue
    /\ ret' = Ret(NoRet, 0)
    /\ UNCHANGED <<queue, isProcessing, isOnline, saved, now, halted, late>>
    /\ prevFail' = FailsAfterFailure(msgs', passes[k].pending[passes[k].idx], now)
    /\ UNCHANGED <<blob, net>>
    /\ rcpt' = RcptAfter(msgs, passes')

\* The setTimeout between two messages fires: the loop goes on.
DelayElapsed(k) ==
    /\ passes[k].pc = "delay"
    /\ now >= passes[k].wake
    /\ LET p == passes[k]
           r == LoopFrom(msgs, isProcessing, RemoveAt(passes, k), p.pending,
                         p.idx + 1, isOnline, now) IN
       /\ msgs' = Collect(r.msgs, queue, r.passes)
       /\ queueSignal' = SignalAfter(RemoveAt(passes, k), r.passes)
       /\ isProcessing' = r.isProcessing
       /\ passes' = r.passes
       /\ halted' = IF Len(r.passes) < Len(passes) /\ p.idx < Len(p.pending)
                    THEN SubSeq(p.pending, p.idx + 1, Len(p.pending))
                    ELSE halted
       /\ late' = LateAfter(passes, r.passes, queue, {})
    /\ ret' = Ret(NoRet, 0)
    /\ UNCHANGED <<queue, isOnline, saved, now>>
    /\ prevFail' = FailsAfter(msgs')
    /\ UNCHANGED <<blob, net>>
    /\ rcpt' = RcptAfter(msgs, passes')

(***************************************************************************)
(* Time: the clock moves on to a later reading.                            *)
(***************************************************************************)
Tick(t) ==
    /\ t > now
    /\ now' = t
    /\ ret' = Ret(NoRet, 0)
    /\ UNCHANGED <<msgs, queue, queueSignal, isProcessing, isOnline, passes, saved,
                   halted, late, prevFail, blob, net, rcpt>>

(***************************************************************************)
(* The manager under every operation of the Queue API.                     *)
(***************************************************************************)
Next ==
    \/ \E a \in AddInputs : Len(msgs) < MaxMsgs /\ addMessage(a[1], Payload(a[1], 1), a[2])
    \/ \E id \in 1..MaxMsgs : removeMessage(id)
    \/ \E id \in 1..MaxMsgs : retryMessage(id)
    \/ clearSentMessages
    \/ clearFailedMessages
    \/ PollTimer
    \/ \E b \in BOOLEAN : NetworkEffect(b)
    \/ \E k \in DOMAIN passes : SendSucceeds(k)
    \/ \E k \in DOMAIN passes : SendFails(k)
    \/ \E k \in DOMAIN passes : DelayElapsed(k)
    \/ \E t \in Instants : Tick(t)

Spec == Init /\ [][Next]_vars

\* The same run with the return values of the API calls observed.
SpecApi == InitApi /\ [][Next]_vars

(***************************************************************************)
(* The single-message scenarios: the life of MaxSoloMsgs messages under    *)
(* every operation of the Queue API, for the properties of one message.    *)
(***************************************************************************)
NextSolo ==
    \/ \E a \in AddInputs :
          Len(msgs) < MaxSoloMsgs /\ addMessage(a[1], Payload(a[1], 1), a[2])
    \/ \E id \in 1..MaxSoloMsgs : removeMessage(id)
    \/ \E id \in 1..MaxSoloMsgs : retryMessage(id)
    \/ clearSentMessages
    \/ clearFailedMessages
    \/ PollTimer
    \/ \E b \in BOOLEAN : NetworkEffect(b)
    \/ \E k \in DOMAIN passes : SendSucceeds(k)
    \/ \E k \in DOMAIN passes : SendFails(k)
    \/ \E k \in DOMAIN passes : DelayElapsed(k)
    \/ \E t \in Instants : Tick(t)

SpecSolo == Init /\ [][NextSolo]_vars

\* The same run with the return values of the API calls observed.
SpecSoloApi == InitApi /\ [][NextSolo]_vars

(***************************************************************************)
(* The ordering scenarios: up to MaxOrderMsgs messages are enqueued and    *)
(* dispatched while the connectivity changes; no message is removed.       *)
(***************************************************************************)
NextOrder ==
    \/ \E a \in OrderInputs : Len(msgs) < MaxOrderMsgs /\ addMessage(a[1], Payload(a[1], 1), a[2])
    \/ PollTimer
    \/ \E b \in BOOLEAN : NetworkEffect(b)
    \/ \E k \in DOMAIN passes : SendSucceeds(k)
    \/ \E k \in DOMAIN passes : SendFails(k)
    \/ \E k \in DOMAIN passes : DelayElapsed(k)
    \/ \E t \in OrderInstants : Tick(t)

SpecOrder == Init /\ [][NextOrder]_vars

(***************************************************************************)
(* The backoff scenarios: MaxGapMsgs messages are enqueued and dispatched  *)
(* while the connectivity changes and sender calls take any time; the      *)
(* failures of each message are observed.                                  *)
(***************************************************************************)
NextGap ==
    \/ \E a \in AddInputs : Len(msgs) < MaxGapMsgs /\ addMessage(a[1], Payload(a[1], 1), a[2])
    \/ PollTimer
    \/ \E b \in BOOLEAN : NetworkEffect(b)
    \/ \E k \in DOMAIN passes : SendSucceeds(k)
    \/ \E k \in DOMAIN passes : SendFails(k)
    \/ \E k \in DOMAIN passes : DelayElapsed(k)
    \/ \E t \in Instants : Tick(t)

SpecGap == InitGap /\ [][NextGap]_vars

(***************************************************************************)
(* The network status monitor (network-status.ts).  Its status signal is   *)
(* set by the browser's online and offline events and by the connectivity  *)
(* probes, periodic or forced; a probe reads the status when it starts and *)
(* compares its outcome with that reading when its requests have settled.  *)
(* The queue manager's network effect runs on every change of the signal.  *)
(***************************************************************************)
TEST_ENDPOINTS == 3

\* The state after the construction of the monitor and of the queue manager,
\* the browser reporting onLine.
InitNet ==
    /\ msgs = <<>> /\ queue = <<>> /\ queueSignal = <<>>
    /\ isProcessing = FALSE /\ passes = <<>>
    /\ isOnline \in BOOLEAN
    /\ saved = saveQueue(<<>>, <<>>)
    /\ now = 0 /\ halted = <<>> /\ late = {}
    /\ blob = NoBlob
    /\ ret = [op |-> Unobserved, val |-> 0]
    /\ prevFail = [on |-> FALSE, of |-> <<>>]
    /\ net = [observed |-> TRUE, isOnline |-> isOnline, probes |-> <<>>,
              result |-> None]
    /\ rcpt = RcptUnobserved

\* handleOnline: the browser fires its online event.
handleOnline ==
    /\ net.observed
    /\ net' = [net EXCEPT !.isOnline = TRUE, !.result = None]
    /\ setupNetworkDetection(TRUE)

\* handleOffline: the browser fires its offline event.
handleOffline ==
    /\ net.observed
    /\ net' = [net EXCEPT !.isOnline = FALSE, !.result = None]
    /\ setupNetworkDetection(FALSE)

\* performConnectivityTest up to its await, called by the interval timer or
\* by forceCheck: the status is read and the requests are sent.
performConnectivityTest(forced) ==
    /\ net.observed
    /\ Len(net.probes) < MaxProbes
    /\ net' = [net EXCEPT !.probes = Append(@, [wasOnline |-> net.isOnline,
                                                 forced |-> forced]),
                          !.result = None]
    /\ UNCHANGED <<msgs, queue, queueSignal, isProcessing, isOnline, passes,
                   saved, now, ret, halted, late, prevFail, blob, rcpt>>

\* What becomes of the request to an endpoint: a response (of any status),
\* a network error, or the abort of the 5 s timeout.
EndpointOutcomes == {"response", "error", "timeout"}

\* testEndpoint: true on a response, false when fetch rejects.
testEndpoint(outcome) == outcome = "response"

\* A probe that wants every endpoint to answer.
ProbeOnline_All(results) == \A i \in DOMAIN results : results[i]

\* The outcome of a probe whose request i succeeded iff results[i]: online
\* if at least one did.
ProbeOnline(results) == \E i \in DOMAIN results : results[i]

\* The status after a probe that read wasOnline and found online: set only
\* if the two differ.
StatusAfterProbe(status, wasOnline, online) ==
    IF online # wasOnline THEN online ELSE status

\* performConnectivityTest after its await: the requests of probe k have
\* settled with outcomes; the status is updated and, for forceCheck, the
\* promise resolves with the outcome of the probe.
ProbeSettles(k, outcomes) ==
    /\ net.observed
    /\ k \in DOMAIN net.probes
    /\ LET p == net.probes[k]
           results == [ i \in DOMAIN outcomes |-> testEndpoint(outcomes[i]) ]
           online == ProbeOnline(results)
           status == StatusAfterProbe(net.isOnline, p.wasOnline, online)
       IN /\ net' = [net EXCEPT !.isOnline = status,
                                !.probes = RemoveAt(@, k),
                                !.result = IF p.forced THEN Some(online) ELSE None]
          /\ setupNetworkDetection(status)

NextNet ==
    \/ handleOnline
    \/ handleOffline
    \/ \E forced \in BOOLEAN : performConnectivityTest(forced)
    \/ \E k \in 1..MaxProbes :
          \E outcomes \in [1..TEST_ENDPOINTS -> EndpointOutcomes] :
             ProbeSettles(k, outcomes)

SpecNet == InitNet /\ [][NextNet]_vars

(***************************************************************************)
(* The recipient scenarios: messages with several recipients are enqueued  *)
(* and dispatched; the sender awaits the import of its service module and  *)
(* then the send to each recipient, each of them resolving or throwing.    *)
(***************************************************************************)
InitRcpt ==
    /\ msgs = <<>> /\ queue = <<>> /\ queueSignal = <<>>
    /\ isProcessing = FALSE /\ passes = <<>>
    /\ isOnline \in BOOLEAN
    /\ saved = saveQueue(<<>>, <<>>)
    /\ now = 0 /\ halted = <<>> /\ late = {}
    /\ blob = NoBlob
    /\ ret = [op |-> Unobserved, val |-> 0]
    /\ prevFail = [on |-> FALSE, of |-> <<>>]
    /\ net = NetUnobserved
    /\ rcpt = [observed |-> TRUE, at |-> 0]

NextRcpt ==
    \/ \E a \in AddInputs : \E n \in 1..MaxRecipients :
          Len(msgs) < MaxRcptMsgs /\ addMessage(a[1], Payload(a[1], n), a[2])
    \/ PollTimer
    \/ \E b \in BOOLEAN : NetworkEffect(b)
    \/ \E k \in DOMAIN passes : ImportResolves(k)
    \/ \E k \in DOMAIN passes : RecipientSucceeds(k)
    \/ \E k \in DOMAIN passes : SendSucceeds(k)
    \/ \E k \in DOMAIN passes : SendFails(k)
    \/ \E k \in DOMAIN passes : DelayElapsed(k)
    \/ \E t \in Instants : Tick(t)

SpecRcpt == InitRcpt /\ [][NextRcpt]_vars

(***************************************************************************)
(* The startup scenarios: the manager is constructed with any of Blobs in  *)
(* localStorage; messages are enqueued, up to MaxLoadMsgs with the loaded  *)
(* ones, and dispatched.                                                   *)
(***************************************************************************)
NextLoad ==
    \/ \E a \in LiveInputs : Len(msgs) < MaxLoadMsgs /\ addMessage(a[1], Payload(a[1], 1), a[2])
    \/ PollTimer
    \/ \E b \in BOOLEAN : NetworkEffect(b)
    \/ \E k \in DOMAIN passes : SendSucceeds(k)
    \/ \E k \in DOMAIN passes : SendFails(k)
    \/ \E k \in DOMAIN passes : DelayElapsed(k)
    \/ \E t \in Instants : Tick(t)

SpecLoad == InitLoad /\ [][NextLoad]_vars

(***************************************************************************)
(* The progress scenarios: the manager is online from its construction and *)
(* stays online; up to MaxLiveMsgs messages of low and high priority are   *)
(* enqueued at any moment.  Time passes while a pass waits between two     *)
(* messages.  Every sender call returns (with a success or a failure),     *)
(* every setTimeout fires and the poll timer keeps firing.                 *)
(***************************************************************************)
\* The clock reaches the time at which the setTimeout of a waiting pass fires.
TickToWake(k) ==
    /\ passes[k].pc = "delay"
    /\ now < passes[k].wake
    /\ now' = passes[k].wake
    /\ ret' = Ret(NoRet, 0)
    /\ UNCHANGED <<msgs, queue, queueSignal, isProcessing, isOnline, passes, saved,
                   halted, late, prevFail, blob, net, rcpt>>

InitLive == Init /\ isOnline

SenderReturns == \E k \in DOMAIN passes : SendSucceeds(k) \/ SendFails(k)

TimeoutFires == \E k \in DOMAIN passes : DelayElapsed(k)

TimePasses == \E k \in DOMAIN passes : TickToWake(k)

NextLive ==
    \/ \E a \in LiveInputs : Len(msgs) < MaxLiveMsgs /\ addMessage(a[1], Payload(a[1], 1), a[2])
    \/ PollTimer
    \/ SenderReturns
    \/ TimeoutFires
    \/ TimePasses

SpecLive ==
    /\ InitLive /\ [][NextLive]_vars
    /\ WF_vars(PollTimer)
    /\ WF_vars(SenderReturns)
    /\ WF_vars(TimeoutFires)
    /\ WF_vars(TimePasses)

\* The restart scenarios: the manager is constructed online with any of
\* Blobs in localStorage and stays online; messages are enqueued, up to
\* MaxLoadMsgs with the loaded ones; the poll timer fires, sender calls
\* return and timeouts fire.
InitRestart == InitLoad /\ isOnline

NextRestart ==
    \/ \E a \in LiveInputs :
          Len(msgs) < MaxLoadMsgs /\ addMessage(a[1], Payload(a[1], 1), a[2])
    \/ PollTimer
    \/ SenderReturns
    \/ TimeoutFires
    \/ TimePasses

SpecRestart ==
    /\ InitRestart /\ [][NextRestart]_vars
    /\ WF_vars(PollTimer)
    /\ WF_vars(SenderReturns)
    /\ WF_vars(TimeoutFires)
    /\ WF_vars(TimePasses)

\* The termination scenarios: the manager starts online or offline and the
\* connectivity changes at any moment; up to MaxMsgs messages are enqueued,
\* and messages are removed and manually retried at any moment, a pass
\* running or not (manual retries up to the clock reading PassHorizon).
\* Every sender call returns and every setTimeout fires.
NextPass ==
    \/ \E a \in LiveInputs :
          Len(msgs) < MaxMsgs /\ addMessage(a[1], Payload(a[1], 1), a[2])
    \/ \E id \in 1..MaxMsgs : removeMessage(id)
    \/ \E id \in 1..MaxMsgs : now < PassHorizon /\ retryMessage(id)
    \/ PollTimer
    \/ \E b \in BOOLEAN : NetworkEffect(b)
    \/ SenderReturns
    \/ TimeoutFires
    \/ TimePasses

SpecPass ==
    /\ Init /\ [][NextPass]_vars
    /\ WF_vars(SenderReturns)
    /\ WF_vars(TimeoutFires)
    /\ WF_vars(TimePasses)

(***************************************************************************)
(* Properties.                                                             *)
(***************************************************************************)
\* The ids of the objects on the heap before and after a step.
LiveIds == { id \in DOMAIN msgs : msgs[id] # Collected }
LiveIds2 == { id \in LiveIds : msgs'[id] # Collected }
QueueIds == Range(queue)

\* An attempt on message id starts in this step: it has become sending, or has
\* one attempt more.
AttemptStarts(id) ==
    /\ id \in DOMAIN msgs' /\ msgs'[id] # Collected
    /\ msgs'[id].status = "sending"
    /\ \/ id \notin LiveIds
       \/ msgs[id].status # "sending"
       \/ msgs[id].attempts # msgs'[id].attempts

\* A pass starts in this step.
PassStarts == passes = <<>> /\ passes' # <<>>

\* C1: only one processing pass runs at a time: at most one invocation of
\* processQueue is suspended in its loop, whatever triggers arrive meanwhile.
C1_SinglePass == Len(passes) <= 1

\* A pass is running, the manager is online, and a message made pending after
\* the pass started waits in the queue: its trigger started no second pass.
C1_Witness ==
    /\ Len(passes) = 1 /\ isOnline /\ isProcessing
    /\ \E id \in QueueIds :
         msgs[id].status = "pending" /\ id \notin Range(passes[1].pending)

\* C2: every message in the queue has attempts <= maxAttempts, and
\* maxAttempts is 5.
C2_AttemptsBounded ==
    \A id \in QueueIds :
        /\ msgs[id].maxAttempts = 5
        /\ msgs[id].attempts <= msgs[id].maxAttempts

\* A queued message is in its fifth and last attempt.
C2_Witness ==
    \E id \in QueueIds :
        msgs[id].status = "sending" /\ msgs[id].attempts = msgs[id].maxAttempts

\* The change of message id in one step follows the state machine.  A handler
\* runs to its first await, so a manual retry made online shows the message
\* already sending again (retry, then the first attempt of the new pass).
C3_Edge(id) ==
    LET a == msgs[id]
        b == msgs'[id]
    IN  \/ a.status = b.status /\ (a.status = "sent" => b = a)
        \/ a.status = "pending" /\ b.status = "sending"
        \/ /\ a.status = "retrying" /\ b.status = "sending"
           /\ a.nextRetry # None /\ a.nextRetry[1] <= now
        \/ a.status = "sending" /\ b.status = "sent"
        \/ a.status = "sending" /\ b.status = "retrying" /\ b.attempts < b.maxAttempts
        \/ a.status = "sending" /\ b.status = "failed" /\ b.attempts = b.maxAttempts
        \/ /\ a.status \in {"retrying", "failed"}
           /\ retryMessage(id)
           /\ b.status = "pending" \/ (b.status = "sending" /\ b.attempts = 1)

\* C3: a message's status changes only along the edges of the state machine;
\* a sent message never changes again; a new message starts pending (and is
\* in its first attempt at once when the enqueue starts a pass).
C3_StateMachine ==
    [][ /\ \A id \in LiveIds2 : C3_Edge(id)
        /\ \A id \in DOMAIN msgs' \ DOMAIN msgs :
              \/ msgs'[id].status = "pending" /\ msgs'[id].attempts = 0
              \/ msgs'[id].status = "sending" /\ msgs'[id].attempts = 1 ]_vars

\* A queued message is pending again after an attempt: it was retried by hand.
C3_Witness ==
    \E id \in QueueIds :
        msgs[id].status = "pending" /\ msgs[id].lastAttempt # None

\* C4: no attempt starts while the manager is offline.
C4_NoSendOffline ==
    [][ \A id \in DOMAIN msgs' : AttemptStarts(id) => isOnline' ]_vars

\* The manager is offline and idle, and a message enqueued meanwhile is still
\* pending and unattempted.
C4_Witness ==
    /\ ~isOnline /\ passes = <<>>
    /\ \E id \in QueueIds :
         /\ msgs[id].status = "pending" /\ msgs[id].attempts = 0
         /\ msgs[id].lastAttempt = None /\ msgs[id].createdAt > 0

\* A message is eligible: pending, or retrying with its nextRetry in the past.
C5_Eligible(r) ==
    \/ r.status = "pending"
    \/ r.status = "retrying" /\ r.nextRetry # None /\ r.nextRetry[1] <= now

\* Message a goes before message b: higher priority, or the same and not
\* younger.
C5_Before(a, b) ==
    LET rank(p) == IF p = "high" THEN 3 ELSE IF p = "medium" THEN 2 ELSE 1 IN
    \/ rank(a.priority) > rank(b.priority)
    \/ rank(a.priority) = rank(b.priority) /\ a.createdAt <= b.createdAt

\* C5: a pass selects exactly the eligible messages of the queue, in the
\* order priority descending then createdAt ascending, and attempts them in
\* that order, one after the other.
C5_SelectionOrder ==
    [][ /\ PassStarts =>
            LET P == passes'[1].pending IN
            /\ passes'[1].idx = 1
            /\ \A i, j \in DOMAIN P : i < j => P[i] # P[j]
            /\ \A i, j \in DOMAIN P : i < j => C5_Before(msgs'[P[i]], msgs'[P[j]])
            /\ \A id \in Range(queue') :
                 id \in Range(P) <=>
                   IF id = P[1]
                   THEN \/ id \notin DOMAIN msgs
                        \/ C5_Eligible(msgs[id])
                        \/ retryMessage(id)
                   ELSE C5_Eligible(msgs'[id])
            /\ Range(P) \subseteq Range(queue')
        /\ \A id \in DOMAIN msgs' : AttemptStarts(id) =>
            /\ Len(passes') = 1
            /\ passes'[1].pending[passes'[1].idx] = id
            /\ ~PassStarts =>
                 /\ Len(passes) = 1
                 /\ passes'[1].pending = passes[1].pending
                 /\ passes'[1].idx = passes[1].idx + 1 ]_vars

\* The example of the specification: A (high), B (low, 10 s older) and
\* C (high, 5 s older) have been attempted in the order C, A, B.
C5_Witness ==
    /\ Len(passes) = 1
    /\ Len(passes[1].pending) = 3 /\ passes[1].idx = 3
    /\ LET C == msgs[passes[1].pending[1]]
           A == msgs[passes[1].pending[2]]
           B == msgs[passes[1].pending[3]]
       IN /\ A.priority = "high" /\ B.priority = "low" /\ C.priority = "high"
          /\ B.createdAt = A.createdAt - 10000
          /\ C.createdAt = A.createdAt - 5000
          /\ A.attempts = 1 /\ B.attempts = 1 /\ C.attempts = 1

\* C6: short of a manual retry, the attempts of a message only grow, one at
\* a time and never beyond 5; a retry starts only once nextRetry is reached;
\* a failure of the fifth attempt leaves the message failed, an earlier
\* failure leaves it retrying; a failed message is not attempted again.
C6_FiveAttempts ==
    [][ \A id \in LiveIds2 :
          LET a == msgs[id]
              b == msgs'[id]
          IN  retryMessage(id) \/
              /\ b.attempts = a.attempts \/ (AttemptStarts(id) /\ b.attempts = a.attempts + 1)
              /\ b.attempts <= 5
              /\ AttemptStarts(id) =>
                   /\ a.status \in {"pending", "retrying"} /\ a.attempts < 5
                   /\ a.status = "retrying" => a.nextRetry # None /\ a.nextRetry[1] <= now
              /\ a.status = "sending" /\ b.status # "sending" /\ b.status # "sent" =>
                   /\ b.error # None
                   /\ b.status = (IF a.attempts = 5 THEN "failed" ELSE "retrying")
              /\ a.status = "failed" => b = a ]_vars

\* A message has failed for good: five attempts, the last at the earliest
\* instant the four delays allow.
C6_Witness ==
    \E id \in QueueIds :
        /\ msgs[id].status = "failed" /\ msgs[id].attempts = 5
        /\ msgs[id].error # None
        /\ msgs[id].lastAttempt = Some(msgs[id].createdAt + 1000 + 5000 + 30000 + 60000)

\* The position of id in the sequence s, 0 if it is not there.
C7_Pos(s, id) == IF id \in Range(s) THEN CHOOSE i \in DOMAIN s : s[i] = id ELSE 0

\* C7: when the loop of a pass resumes while the manager is offline, the pass
\* ends without touching a message, the flag is reset, and the messages it
\* had selected but not started are attempted by the next pass in the same
\* relative order.
C7_HaltOffline ==
    [][ /\ ( /\ passes # <<>> /\ passes[1].pc = "delay" /\ passes' # passes
             /\ ~isOnline /\ passes[1].idx < Len(passes[1].pending) ) =>
            /\ passes' = <<>> /\ ~isProcessing'
            /\ \A id \in QueueIds : msgs'[id] = msgs[id]
            /\ halted' = SubSeq(passes[1].pending, passes[1].idx + 1,
                                Len(passes[1].pending))
        /\ PassStarts =>
            \A i, j \in DOMAIN halted :
               LET P == passes'[1].pending IN
               (i < j /\ halted[i] \in Range(P) /\ halted[j] \in Range(P))
                  => C7_Pos(P, halted[i]) < C7_Pos(P, halted[j]) ]_vars

\* Scenario 5: a pass over three messages was aborted offline after its first
\* message; the other two are pending and untouched.
C7_Witness ==
    /\ ~isOnline /\ passes = <<>> /\ ~isProcessing
    /\ Len(halted) = 2 /\ Len(queue) = 3
    /\ \A i \in DOMAIN halted :
         /\ halted[i] \in QueueIds
         /\ msgs[halted[i]].status = "pending"
         /\ msgs[halted[i]].attempts = 0
         /\ msgs[halted[i]].lastAttempt = None
    /\ \E id \in QueueIds : id \notin Range(halted) /\ msgs[id].attempts = 1

\* C8: the state persisted under message_queue is the serialisation of the
\* current queue.
C8_Persisted == saved = saveQueue(msgs, queue)

\* C9: a failed message of the queue stays in the queue, unchanged, in every
\* step that is not a retryMessage or removeMessage of it or a
\* clearFailedMessages.
C9_FailedStays ==
    [][ \A id \in QueueIds :
          msgs[id].status = "failed" =>
             \/ id \in Range(queue') /\ msgs'[id] = msgs[id]
             \/ retryMessage(id)
             \/ removeMessage(id)
             \/ clearFailedMessages ]_vars

\* A pass is running that started when a queued message had already failed,
\* and did not select it.
C9_Witness ==
    /\ Len(passes) = 1
    /\ \E id \in QueueIds :
         /\ msgs[id].status = "failed" /\ msgs[id].error = Some(SendError)
         /\ id \notin Range(passes[1].pending)

\* C10: a sent message of the queue has no error.
C10_SentNoError ==
    \A id \in QueueIds : msgs[id].status = "sent" => msgs[id].error = None

\* A message was sent at its second attempt or later: the error of the failed
\* attempt is gone.
C10_Witness ==
    \E id \in QueueIds :
        msgs[id].status = "sent" /\ msgs[id].attempts >= 2 /\ msgs[id].error = None

\* C11: a message is failed exactly when it has used all its attempts and
\* the last of them ended in a failure: a failed message has
\* attempts = maxAttempts and carries the error of that attempt, and a message
\* with attempts = maxAttempts whose last attempt is over (it is not sending)
\* and did not succeed (it is not sent) is failed.
C11_FailedIff ==
    \A id \in LiveIds :
        LET r == msgs[id] IN
        /\ r.status = "failed" => r.attempts = r.maxAttempts /\ r.error # None
        /\ (r.attempts = r.maxAttempts /\ r.status \notin {"sending", "sent"})
              => r.status = "failed"

\* One message has failed for good while another, attempted less often, waits
\* for its retry.
C11_Witness ==
    \E id, other \in QueueIds :
        /\ msgs[id].status = "failed" /\ msgs[id].attempts = msgs[id].maxAttempts
        /\ msgs[other].status = "retrying"
        /\ msgs[other].attempts < msgs[other].maxAttempts

\* C12: a retrying message has a nextRetry and fewer than maxAttempts
\* attempts.
C12_RetryingHasNextRetry ==
    \A id \in LiveIds :
        msgs[id].status = "retrying" =>
            /\ msgs[id].nextRetry # None
            /\ msgs[id].attempts < msgs[id].maxAttempts

\* A message waits for its last retry: four attempts, the retry due 60 s after
\* the fourth.
C12_Witness ==
    \E id \in QueueIds :
        /\ msgs[id].status = "retrying" /\ msgs[id].attempts = 4
        /\ msgs[id].nextRetry = Some(msgs[id].lastAttempt[1] + 60000)

\* C13: nextRetry is absent on every message that is not retrying.
C13_NextRetryOnlyRetrying ==
    \A id \in QueueIds :
        msgs[id].status # "retrying" => msgs[id].nextRetry = None

\* C14: an attempt on a retrying message starts only at or after its
\* nextRetry (a manual retry apart, which makes it pending first); the
\* passing of time changes no message, so a retrying message whose nextRetry
\* has elapsed stays retrying until a pass selects it.
C14_NoEarlyRetry ==
    [][ /\ \A id \in LiveIds2 :
             (msgs[id].status = "retrying" /\ AttemptStarts(id)) =>
                \/ /\ msgs[id].nextRetry # None
                   /\ now >= msgs[id].nextRetry[1]
                   /\ now' = now
                \/ retryMessage(id)
        /\ now' # now => msgs' = msgs /\ queue' = queue /\ passes' = passes ]_vars

\* A retry is in flight that started after the nextRetry of the message had
\* elapsed: the message stayed retrying in between.
C14_Witness ==
    \E id \in QueueIds :
        /\ msgs[id].status = "sending" /\ msgs[id].attempts = 2
        /\ msgs[id].nextRetry # None
        /\ msgs[id].nextRetry[1] < msgs[id].lastAttempt[1]

\* The message r as a manual retry leaves it.
C15_Reset(r) ==
    [r EXCEPT !.status = "pending", !.attempts = 0, !.error = None,
              !.nextRetry = None]

\* The message r after the start of an attempt at the current time.
C15_Started(r) ==
    [r EXCEPT !.status = "sending", !.attempts = r.attempts + 1,
              !.lastAttempt = Some(now)]

\* C15: retryMessage(id) on a failed or retrying message of the queue returns
\* true and makes the message pending with attempts 0, no error and no
\* nextRetry; the queue and every other message are as before.  When the
\* manager is online and idle the call starts a pass at once: the pass selects
\* the message, and its first message (and no other) is in its attempt when
\* the call returns.  Offline or during a pass nothing else happens.
C15_RetryResets ==
    [][ \A id \in QueueIds :
          (msgs[id].status \in {"failed", "retrying"} /\ retryMessage(id)) =>
             /\ ret' = [op |-> "retryMessage", val |-> TRUE]
             /\ queue' = queue
             /\ isOnline' = isOnline /\ now' = now
             /\ IF isOnline /\ ~isProcessing
                THEN /\ isProcessing' /\ Len(passes') = 1
                     /\ passes'[1].idx = 1 /\ passes'[1].pc = "sending"
                     /\ id \in Range(passes'[1].pending)
                     /\ LET first == passes'[1].pending[1] IN
                        \A o \in QueueIds :
                           msgs'[o] = LET r == IF o = id THEN C15_Reset(msgs[o])
                                                ELSE msgs[o]
                                      IN IF o = first THEN C15_Started(r) ELSE r
                ELSE /\ isProcessing' = isProcessing /\ passes' = passes
                     /\ msgs'[id] = C15_Reset(msgs[id])
                     /\ \A o \in LiveIds \ {id} : msgs'[o] = msgs[o] ]_vars

\* A manual retry of a message that had failed an attempt has just returned
\* true, the manager being online and idle with a second message of higher
\* priority still pending: the retried message is pending with attempts 0
\* and neither error nor nextRetry, and the pass the call started is sending
\* the other message first, which is otherwise as it was.
C15_Witness ==
    /\ ret = [op |-> "retryMessage", val |-> TRUE]
    /\ Len(queue) = 2 /\ Len(passes) = 1 /\ isOnline
    /\ \E id, other \in QueueIds :
          /\ id # other
          /\ passes[1].pending = <<other, id>> /\ passes[1].idx = 1
          /\ msgs[id].status = "pending" /\ msgs[id].attempts = 0
          /\ msgs[id].lastAttempt # None
          /\ msgs[id].error = None /\ msgs[id].nextRetry = None
          /\ msgs[other].status = "sending" /\ msgs[other].attempts = 1
          /\ msgs[other].lastAttempt = Some(now)

\* C16: retryMessage(id) for an id that is not in the queue, or for a queued
\* message that is pending, sending or sent, returns false and changes
\* nothing: no field of any message, not the queue, and no pass starts.  This
\* includes the message a running pass is sending at that moment.
C16_RetryRefused ==
    [][ \A id \in 1..MaxMsgs :
          ( /\ \/ id \notin QueueIds
               \/ msgs[id].status \in {"pending", "sending", "sent"}
            /\ retryMessage(id) ) =>
             /\ ret' = [op |-> "retryMessage", val |-> FALSE]
             /\ UNCHANGED <<msgs, queue, isProcessing, isOnline, passes, saved,
                            now, halted>> ]_vars

\* A manual retry has just returned false while a pass is sending the only
\* message of the queue.
C16_Witness ==
    /\ ret = [op |-> "retryMessage", val |-> FALSE]
    /\ Len(queue) = 1 /\ Len(passes) = 1 /\ passes[1].pc = "sending"
    /\ passes[1].pending[passes[1].idx] = queue[1]
    /\ msgs[queue[1]].status = "sending" /\ msgs[queue[1]].attempts >= 1

\* C17: the attempts of a message change in two ways only: the start of an
\* attempt (the message becomes sending) adds exactly 1, and a manual retry
\* of a failed or retrying message sets it to 0 (to 1 when the retry starts a
\* pass whose first attempt is on this message).  Removing, clearing, the end
\* of an attempt and the passing of time leave the attempts of every message.
C17_AttemptsMonotone ==
    [][ /\ \A id \in LiveIds2 :
             LET a == msgs[id]
                 b == msgs'[id]
                 starts == a.status # "sending" /\ b.status = "sending"
             IN  IF a.status \in {"failed", "retrying"} /\ id \in QueueIds
                    /\ retryMessage(id)
                 THEN b.attempts = IF starts THEN 1 ELSE 0
                 ELSE /\ starts => b.attempts = a.attempts + 1
                      /\ ~starts => b.attempts = a.attempts
        /\ ( \/ \E x \in 1..MaxMsgs : removeMessage(x)
             \/ clearSentMessages \/ clearFailedMessages
             \/ \E k \in DOMAIN passes : SendSucceeds(k) \/ SendFails(k)
             \/ now' # now )
           => \A id \in LiveIds2 : msgs'[id].attempts = msgs[id].attempts ]_vars

\* One message was reset by a manual retry after an attempt and waits, while
\* the pass is at the second attempt or later of another message.
C17_Witness ==
    \E id, other \in QueueIds :
        /\ msgs[id].status = "pending" /\ msgs[id].attempts = 0
        /\ msgs[id].lastAttempt # None /\ msgs[id].error = None
        /\ msgs[other].status = "sending" /\ msgs[other].attempts >= 2

\* C18: a message enqueued while the manager is online and idle is selected
\* by a pass that starts inside the call (pending -> sending for the message
\* at the head of the selection, the first attempt); a sending message is
\* always the current message of the running pass; and when the sender of a
\* first attempt succeeds the message becomes sent in that same pass, with
\* attempts still 1.
C18_SentInOnePass ==
    [][ /\ \A id \in DOMAIN msgs' \ DOMAIN msgs :
             (isOnline /\ ~isProcessing) =>
                /\ Len(passes') = 1 /\ id \in Range(passes'[1].pending)
                /\ passes'[1].pending[1] = id =>
                      msgs'[id].status = "sending" /\ msgs'[id].attempts = 1
                /\ passes'[1].pending[1] # id =>
                      msgs'[id].status = "pending" /\ msgs'[id].attempts = 0
        /\ \A id \in LiveIds :
             msgs[id].status = "sending" =>
                /\ Len(passes) = 1 /\ passes[1].pc = "sending"
                /\ passes[1].pending[passes[1].idx] = id
        /\ \A k \in DOMAIN passes :
             SendSucceeds(k) =>
                LET id == passes[k].pending[passes[k].idx] IN
                /\ passes'[k].pending = passes[k].pending
                /\ passes'[k].idx = passes[k].idx
                /\ id \in QueueIds =>
                     /\ msgs'[id].status = "sent"
                     /\ msgs'[id].attempts = msgs[id].attempts
                     /\ msgs[id].attempts = 1 => msgs'[id].attempts = 1 ]_vars

\* Scenario 2: one sms message was enqueued online, attempted at once and
\* sent; the pass that sent it has not ended yet.
C18_Witness ==
    /\ isOnline /\ Len(queue) = 1 /\ Len(passes) = 1
    /\ passes[1].pending = <<queue[1]>> /\ passes[1].pc = "delay"
    /\ LET r == msgs[queue[1]] IN
       /\ r.type = "sms" /\ r.status = "sent" /\ r.attempts = 1
       /\ r.lastAttempt = Some(r.createdAt) /\ r.error = None

\* The record of a message as enqueue creates it.
C19_Fresh(id, type, priority) ==
    [ id |-> id, type |-> type, status |-> "pending", priority |-> priority,
      data |-> Payload(type, 1),
      createdAt |-> now, lastAttempt |-> None, nextRetry |-> None,
      attempts |-> 0, maxAttempts |-> 5, error |-> None ]

\* C19: every call of addMessage (it has no precondition and no failing
\* branch) adds exactly one message, under an id no message had before:
\* pending, attempts 0,
\* maxAttempts 5, no lastAttempt, nextRetry or error.  The messages already
\* queued keep their fields and their order.  When the manager is online and
\* idle a pass starts inside the call: it selects the new message, and the
\* message at the head of its selection (and no other) is in its attempt when
\* the call returns.  Offline or during a pass nothing else happens.
C19_EnqueueAdds ==
    [][ /\ \A in \in AddInputs :
             addMessage(in[1], Payload(in[1], 1), in[2]) =>
                LET new == DOMAIN msgs' \ DOMAIN msgs
                    id == CHOOSE x \in new : TRUE
                    fresh == C19_Fresh(id, in[1], in[2])
                IN
                /\ Cardinality(new) = 1
                /\ Range(queue') = Range(queue) \cup {id}
                /\ SelectSeq(queue', LAMBDA x : x # id) = queue
                /\ isOnline' = isOnline /\ now' = now /\ saved' = saved
                /\ IF isOnline /\ ~isProcessing
                   THEN /\ isProcessing' /\ Len(passes') = 1
                        /\ passes'[1].idx = 1 /\ passes'[1].pc = "sending"
                        /\ id \in Range(passes'[1].pending)
                        /\ LET first == passes'[1].pending[1] IN
                           \A o \in Range(queue') :
                              msgs'[o] = LET r == IF o = id THEN fresh ELSE msgs[o]
                                         IN IF o = first THEN C15_Started(r) ELSE r
                   ELSE /\ isProcessing' = isProcessing /\ passes' = passes
                        /\ msgs'[id] = fresh
                        /\ \A o \in LiveIds : msgs'[o] = msgs[o] ]_vars

\* A second message was enqueued online after the first had been sent: the
\* call started a pass and the new message is in its first attempt.
C19_Witness ==
    /\ isOnline /\ Len(queue) = 2 /\ Len(passes) = 1
    /\ \E id, old \in QueueIds :
         /\ passes[1].pending = <<id>> /\ passes[1].pc = "sending"
         /\ msgs[old].status = "sent" /\ msgs[old].createdAt < msgs[id].createdAt
         /\ msgs[id].status = "sending" /\ msgs[id].attempts = 1
         /\ msgs[id].createdAt = now /\ msgs[id].lastAttempt = Some(now)
         /\ msgs[id].error = None /\ msgs[id].nextRetry = None

\* C20: removeMessage(id) for a message of the queue, whatever its status
\* (also the one a pass is sending), returns true and takes exactly that
\* message out of the queue; for any other id it returns false and changes
\* nothing.  The other messages keep their place and their fields, and the
\* running pass is not disturbed.
C20_RemoveDeletes ==
    [][ \A id \in 1..MaxMsgs :
          removeMessage(id) =>
             /\ UNCHANGED <<isProcessing, isOnline, passes, saved, now, halted>>
             /\ IF id \in QueueIds
                THEN /\ ret' = [op |-> "removeMessage", val |-> TRUE]
                     /\ id \notin Range(queue')
                     /\ queue' = SelectSeq(queue, LAMBDA x : x # id)
                     /\ Len(queue') = Len(queue) - 1
                     /\ \A o \in Range(queue') : msgs'[o] = msgs[o]
                ELSE /\ ret' = [op |-> "removeMessage", val |-> FALSE]
                     /\ UNCHANGED <<msgs, queue>> ]_vars

\* A message has just been removed while the pass was sending it; the other
\* message is still queued.
C20_Witness ==
    /\ ret = [op |-> "removeMessage", val |-> TRUE]
    /\ Len(queue) = 1 /\ Len(passes) = 1 /\ passes[1].pc = "sending"
    /\ LET id == passes[1].pending[passes[1].idx] IN
       /\ id \notin QueueIds
       /\ msgs[id].status = "sending"
       /\ msgs[queue[1]].status \in {"pending", "retrying", "sent", "failed"}

\* What a clear of the messages in `status` must do in this step: the queue
\* keeps exactly the messages of another status, in their order and with
\* their fields, the number of messages taken out is returned under `op`,
\* and nothing else changes.
C21_Clears(op, status) ==
    /\ Range(queue') = { id \in QueueIds : msgs[id].status # status }
    /\ queue' = SelectSeq(queue, LAMBDA x : x \in Range(queue'))
    /\ \A o \in Range(queue') : msgs'[o] = msgs[o]
    /\ ret' = [op |-> op, val |-> Len(queue) - Len(queue')]
    /\ ret'.val = Cardinality({ id \in QueueIds : msgs[id].status = status })
    /\ UNCHANGED <<isProcessing, isOnline, passes, saved, now, halted>>

\* C21: a call of clearSentMessages (the step whose return value is recorded
\* under that name) removes exactly the sent messages of the queue and
\* returns their number; clearFailedMessages does the same for the failed
\* messages; every other message stays, unchanged and in its place.
C21_ClearRemoves ==
    [][ /\ ret'.op = "clearSentMessages" => C21_Clears("clearSentMessages", "sent")
        /\ ret'.op = "clearFailedMessages" =>
              C21_Clears("clearFailedMessages", "failed") ]_vars

\* Scenario 4 within the bound: a queue with one sent and one unsent message
\* was cleared of its sent messages; the call returned 1 and the unsent
\* message is what is left.
C21_Witness ==
    /\ ret = [op |-> "clearSentMessages", val |-> 1]
    /\ Len(queue) = 1 /\ Len(msgs) = 2
    /\ msgs[queue[1]].status \in {"pending", "retrying", "failed"}

\* The number of messages of the queue in a status.
C22_InQueue(status) == Cardinality({ id \in QueueIds : msgs[id].status = status })

\* C22: in every state, also in the middle of a pass, getStats gives for each
\* status the number of messages of the queue in that status, its total is
\* the length of the queue, and the five counts add up to the total.
C22_StatsCount ==
    LET s == getStats(msgs, queueSignal) IN
    /\ s.total = Len(queue)
    /\ s.pending = C22_InQueue("pending")
    /\ s.sending = C22_InQueue("sending")
    /\ s.sent = C22_InQueue("sent")
    /\ s.failed = C22_InQueue("failed")
    /\ s.retrying = C22_InQueue("retrying")
    /\ s.total = s.pending + s.sending + s.sent + s.failed + s.retrying

\* In the middle of a pass the statistics show two messages, one failed for
\* good and one being sent.
C22_Witness ==
    /\ Len(passes) = 1 /\ passes[1].pc = "sending"
    /\ getStats(msgs, queueSignal) =
          [ total |-> 2, pending |-> 0, sending |-> 1, sent |-> 0,
            failed |-> 1, retrying |-> 0 ]

\* C23: a failing sender does not end the pass.  The failure is recorded on
\* the message of the attempt (an error, and retrying or failed), no other
\* message is touched and the pass stays where it is; when its delay is over
\* and the manager is online, the pass starts the next message of its
\* selection, whatever became of the one before.
C23_FailureIsolated ==
    [][ \A k \in DOMAIN passes :
          LET p == passes[k]
              id == p.pending[p.idx]
          IN
          /\ SendFails(k) =>
               /\ msgs'[id].error # None
               /\ msgs'[id].status =
                     (IF msgs[id].attempts >= msgs[id].maxAttempts
                      THEN "failed" ELSE "retrying")
               /\ \A o \in LiveIds \ {id} : msgs'[o] = msgs[o]
               /\ isProcessing' /\ Len(passes') = Len(passes)
               /\ passes'[k].pending = p.pending /\ passes'[k].idx = p.idx
          /\ (DelayElapsed(k) /\ isOnline /\ p.idx < Len(p.pending)) =>
               LET next == p.pending[p.idx + 1] IN
               /\ isProcessing' /\ Len(passes') = 1
               /\ passes'[1].pending = p.pending /\ passes'[1].idx = p.idx + 1
               /\ msgs'[next].status = "sending"
               /\ msgs'[next].attempts = msgs[next].attempts + 1 ]_vars

\* The first message of a pass over three has failed and waits for its
\* retry, and the pass is sending its second message.
C23_Witness ==
    /\ isOnline /\ isProcessing /\ Len(passes) = 1
    /\ Len(passes[1].pending) = 3 /\ passes[1].idx = 2 /\ passes[1].pc = "sending"
    /\ msgs[passes[1].pending[1]].status = "retrying"
    /\ msgs[passes[1].pending[1]].error = Some(SendError)
    /\ msgs[passes[1].pending[2]].status = "sending"
    /\ msgs[passes[1].pending[3]].status = "pending"

\* The selection of a pass is fixed when the pass starts and is attempted
\* from its head, one message after the other: while a pass goes on, its
\* selection does not change and an attempt starts only on the message that
\* follows the one before.
C24_InOrder ==
    /\ (passes # <<>> /\ passes' # <<>>) =>
          /\ Len(passes) = 1 /\ Len(passes') = 1
          /\ passes'[1].pending = passes[1].pending
          /\ passes'[1].idx \in {passes[1].idx, passes[1].idx + 1}
    /\ \A id \in DOMAIN msgs' :
          (AttemptStarts(id) /\ ~PassStarts) =>
             /\ passes'[1].idx = passes[1].idx + 1
             /\ id = passes[1].pending[passes[1].idx + 1]

\* The claim as stated: the attempts of a pass follow the order computed at
\* its start, and a message enqueued or made pending again while the pass is
\* running is not attempted in that pass.
C24_NotInRunningPass ==
    [][ /\ C24_InOrder
        /\ \A id \in late : AttemptStarts(id) => PassStarts ]_vars

\* C24, amended: the attempts of a pass follow the order computed at its
\* start; a message enqueued while the pass is running is not attempted in
\* that pass, and a message made pending again while it is running is
\* attempted in that pass only if the pass had selected it at its start
\* (as a retrying message that was due).
C24_SelectionFixed ==
    [][ /\ C24_InOrder
        /\ \A id \in late :
             (AttemptStarts(id) /\ ~PassStarts) =>
                /\ msgs[id].lastAttempt # None
                /\ id \in Range(passes[1].pending)
        /\ \A id \in DOMAIN msgs' \ DOMAIN msgs :
             passes # <<>> => id \in late' /\ id \notin Range(passes'[1].pending) ]_vars

\* A pass has come to the end of its selection while online, and a message
\* enqueued during the pass is still pending and unattempted.
C24_Witness ==
    /\ isOnline /\ Len(passes) = 1
    /\ passes[1].idx = Len(passes[1].pending) /\ passes[1].pc = "delay"
    /\ \E id \in late :
         /\ id \in QueueIds /\ id \notin Range(passes[1].pending)
         /\ msgs[id].status = "pending" /\ msgs[id].attempts = 0
         /\ msgs[id].lastAttempt = None

\* C25: while the manager stays online and every sender call returns, every
\* pending message, of whatever priority, is eventually attempted, also when
\* messages of high priority are enqueued around it and when it was enqueued
\* during a pass (so that its own trigger started nothing).
C25_NoStarvation ==
    \A id \in 1..MaxLiveMsgs :
        (id \in DOMAIN msgs /\ msgs[id].status = "pending")
            ~> (id \in DOMAIN msgs /\ msgs[id].attempts >= 1)

\* A message of low priority, enqueued during a pass, has been attempted
\* although a message of high priority was enqueued after it.
C25_Witness ==
    \E id, hi \in QueueIds :
        /\ msgs[id].priority = "low" /\ msgs[hi].priority = "high"
        /\ hi > id /\ msgs[id].attempts >= 1
        /\ msgs[id].lastAttempt[1] > msgs[id].createdAt

\* The sender calls in flight: the suspended passes that await a sender.
C26_InFlight == { k \in DOMAIN passes : passes[k].pc = "sending" }

\* C26: at most one sender call is in flight, and at most one message is
\* sending: the one whose sender the running pass awaits.
C26_OneSending ==
    /\ Cardinality(C26_InFlight) <= 1
    /\ Cardinality({ id \in LiveIds : msgs[id].status = "sending" }) <= 1
    /\ \A id \in QueueIds :
          msgs[id].status = "sending" =>
             \E k \in C26_InFlight : passes[k].pending[passes[k].idx] = id

\* A pass over two messages awaits the sender of the first; the second,
\* selected as well, is still pending.
C26_Witness ==
    /\ Len(passes) = 1 /\ passes[1].pc = "sending" /\ passes[1].idx = 1
    /\ Len(passes[1].pending) = 2
    /\ msgs[passes[1].pending[1]].status = "sending"
    /\ msgs[passes[1].pending[2]].status = "pending"
    /\ passes[1].pending[2] \in QueueIds

\* The backoff ladder of the specification, indexed by the attempt number.
C27_Ladder == <<1000, 5000, 30000, 60000, 300000>>

\* The failure of this step is the second or a later one of a run of
\* failures of message id, and leaves the message waiting for a retry.
C27_NextFailure(k, id) ==
    /\ SendFails(k) /\ id = passes[k].pending[passes[k].idx]
    /\ prevFail.of[id] # None /\ msgs'[id].status = "retrying"

\* C27 as stated: from one failed attempt of a message to the next,
\* nextRetry - lastAttempt does not decrease, however long the sender calls
\* take.
C27_GapNonDecreasing ==
    [][ \A k \in DOMAIN passes : \A id \in LiveIds :
          C27_NextFailure(k, id) =>
             msgs'[id].nextRetry[1] - msgs'[id].lastAttempt[1] >= prevFail.of[id][1] ]_vars

\* C27, amended: nextRetry - lastAttempt is the duration of the sender call
\* plus the delay of the ladder, and the delay does not decrease; so from one
\* failed attempt to the next the difference does not decrease, unless the
\* later sender call is shorter than the earlier one by more than the ladder
\* grows between the two attempts.
C27_GapFollowsLadder ==
    [][ \A k \in DOMAIN passes : \A id \in LiveIds :
          C27_NextFailure(k, id) =>
             LET n == msgs'[id].attempts
                 gap == msgs'[id].nextRetry[1] - msgs'[id].lastAttempt[1]
                 dur == now - msgs'[id].lastAttempt[1]
             IN /\ gap - dur = C27_Ladder[n]
                /\ prevFail.of[id][1] - prevFail.of[id][2] = C27_Ladder[n - 1]
                /\ gap - dur >= prevFail.of[id][1] - prevFail.of[id][2]
                /\ gap >= prevFail.of[id][1]
                      <=> prevFail.of[id][2] - dur <= C27_Ladder[n] - C27_Ladder[n - 1] ]_vars

\* A message has failed twice in a row; its first sender call took 5 s and
\* its second failed at once, and nextRetry - lastAttempt went from 6 s to
\* 5 s.
C27_Witness ==
    \E id \in QueueIds :
        /\ msgs[id].status = "retrying" /\ msgs[id].attempts = 2
        /\ msgs[id].createdAt = 1000 /\ msgs[id].lastAttempt = Some(36000)
        /\ prevFail.of[id] = <<5000, 0>>

\* The delay of the specification after attempt number n: the ladder entry,
\* the last one beyond the ladder.
C30_Delay(n) == C27_Ladder[IF n < Len(C27_Ladder) THEN n ELSE Len(C27_Ladder)]

\* The attempt on message id fails in this step.
C30_Fails(id) ==
    /\ msgs[id].status = "sending"
    /\ msgs'[id] # Collected /\ msgs'[id].status \in {"retrying", "failed"}

\* C30: a failed attempt that leaves attempts = k < maxAttempts makes the
\* message retrying with nextRetry = time of the failure + ladder[k], the
\* ladder [1s, 5s, 30s, 60s, 300s] being indexed from 1 and clamped to its
\* last entry; a failed attempt with attempts >= maxAttempts makes it failed
\* and computes no nextRetry (the field stays as it was).
C30_BackoffLadder ==
    [][ \A id \in LiveIds :
          C30_Fails(id) =>
             /\ msgs'[id].attempts = msgs[id].attempts
             /\ IF msgs[id].attempts < msgs[id].maxAttempts
                THEN /\ msgs'[id].status = "retrying"
                     /\ msgs'[id].nextRetry = Some(now + C30_Delay(msgs[id].attempts))
                ELSE /\ msgs'[id].status = "failed"
                     /\ msgs'[id].nextRetry = msgs[id].nextRetry
             /\ \A n \in 1..MaxRung : RetryDelay(n) = C30_Delay(n) ]_vars

\* A message has failed for good at its fifth attempt, at 96 s: its nextRetry
\* is still the one of its fourth failure, 36 s + 60 s.
C30_Witness ==
    \E id \in QueueIds :
        /\ msgs[id].status = "failed" /\ msgs[id].attempts = 5
        /\ msgs[id].lastAttempt = Some(96000)
        /\ msgs[id].nextRetry = Some(96000)
        /\ now = 96000

\* localStorage held nothing at startup, or something that is not the JSON of
\* a list of messages.
C29_Unusable ==
    \/ blob.kind \in {"missing", "text", "value"}
    \/ blob.kind = "array" /\ \E i \in DOMAIN blob.items : blob.items[i] = NullItem

\* C29: when the saved blob is missing or cannot be parsed, the load leaves
\* the queue empty and the manager goes on: the constructor saves an empty
\* list, and the queue only ever holds messages enqueued since the startup
\* (at time 0), which are dispatched as usual.
C29_LoadNeverFails ==
    C29_Unusable =>
       /\ saved = saveQueue(<<>>, <<>>)
       /\ \A id \in LiveIds : msgs[id].createdAt >= 0

\* The blob was not JSON; a message enqueued after the startup has been sent
\* and a second one is being sent.
C29_Witness ==
    /\ blob.kind = "text"
    /\ Len(queue) = 2
    /\ \E id \in QueueIds : msgs[id].status = "sent" /\ msgs[id].createdAt >= 0
    /\ \E id \in QueueIds : msgs[id].status = "sending"

\* C28: when a forceCheck completes with result r, the status of the monitor
\* is r, so that isOnline() called right after returns r, whatever events and
\* other probes came in between.
C28_ForceCheckUpdates ==
    net.result # None => net.isOnline = net.result[1]

\* C31: the sender of a message with several recipients calls the service
\* once per recipient, one after the other from the first (no call is made
\* when the attempt starts, the import of the service module coming first);
\* the message becomes sent only in the step in which the send to its last
\* recipient succeeds, all in the same attempt; a send that throws makes
\* the attempt one failure (attempts was incremented once, when the attempt
\* started; the status becomes retrying or failed) and the recipients after
\* it get no send in that attempt.
C31_OneFailurePerAttempt ==
    [][ \A id \in LiveIds :
          /\ msgs[id].status = "sending" /\ msgs'[id] # Collected =>
                /\ msgs'[id].attempts = msgs[id].attempts
                /\ rcpt.at \in 0..Len(msgs[id].data.to)
                /\ msgs'[id].status \in {"sending", "sent", "retrying", "failed"}
                /\ msgs'[id].status = "sending" =>
                      rcpt'.at \in {rcpt.at, rcpt.at + 1}
                /\ msgs'[id].status = "sent" =>
                      rcpt.at = Len(msgs[id].data.to) /\ rcpt'.at # rcpt.at + 1
                /\ msgs'[id].status \in {"retrying", "failed"} =>
                      rcpt'.at # rcpt.at + 1
          /\ msgs[id].status # "sending" /\ msgs'[id] # Collected
                /\ msgs'[id].status = "sending" =>
                /\ msgs'[id].attempts = msgs[id].attempts + 1
                /\ rcpt'.at = 0 ]_vars

\* A message with three recipients is in its second attempt, after a first
\* one that failed: the send to its first recipient has succeeded again and
\* the send to the second is awaited.
C31_Witness ==
    \E id \in QueueIds :
        /\ msgs[id].status = "sending" /\ msgs[id].attempts = 2
        /\ msgs[id].error # None
        /\ Len(msgs[id].data.to) = 3 /\ rcpt.at = 2

\* C32: a change of the connectivity from offline to online starts a pass in
\* the same step, the poll timer not being awaited, whenever a message is
\* eligible and no pass is running: the first message of the selection is
\* sending after the step.  A change from online to offline starts no pass
\* and no attempt.
C32_RestartOnReconnect ==
    [][ /\ ~isOnline /\ isOnline' /\ ~isProcessing
           /\ pendingMessages(msgs, queue, now) # <<>> =>
              LET pend == pendingMessages(msgs, queue, now) IN
              /\ isProcessing'
              /\ Len(passes') = 1 /\ passes'[1].pending = pend
              /\ passes'[1].idx = 1 /\ passes'[1].pc = "sending"
              /\ msgs'[pend[1]].status = "sending"
              /\ msgs'[pend[1]].lastAttempt = Some(now)
              /\ now' = now
        /\ isOnline /\ ~isOnline' =>
              /\ msgs' = msgs /\ passes' = passes
              /\ isProcessing' = isProcessing ]_vars

\* The only message of the run was enqueued offline at time 0; the
\* connectivity came back at 1 s and its first attempt started at that
\* instant.
C32_Witness ==
    /\ Len(msgs) = 1 /\ queue = <<1>> /\ isOnline /\ isProcessing
    /\ msgs[1].status = "sending" /\ msgs[1].attempts = 1
    /\ msgs[1].createdAt = 0 /\ msgs[1].lastAttempt = Some(1000)
    /\ now = 1000

\* C33: a probe reports online iff at least one of its endpoints answered,
\* and offline when all of them failed or timed out: that is the value
\* forceCheck resolves with, and the status of the monitor after the probe
\* when the status has not changed since the probe read it.  A failed probe
\* does nothing else: the status is left or set to the outcome, and the
\* probe ends.
C33_ProbeOutcome ==
    [][ \A k \in 1..MaxProbes :
          \A outcomes \in [1..TEST_ENDPOINTS -> EndpointOutcomes] :
            ProbeSettles(k, outcomes) =>
               LET online == \E i \in 1..TEST_ENDPOINTS : outcomes[i] = "response"
                   p == net.probes[k]
               IN /\ p.forced => net'.result = Some(online)
                  /\ net.isOnline = p.wasOnline => net'.isOnline = online
                  /\ net'.isOnline \in {net.isOnline, online}
                  /\ Len(net'.probes) = Len(net.probes) - 1
                  /\ isOnline' = net'.isOnline ]_vars

\* A forced probe has found no endpoint: it resolved with false and the
\* monitor is offline.
C33_Witness ==
    /\ net.observed /\ net.result = Some(FALSE)
    /\ ~net.isOnline /\ ~isOnline /\ net.probes = <<>>

\* What loadQueue makes of the list saveQueue writes for the queue as it is.
C34_Reloaded ==
    loadQueue([kind |-> "array", items |-> saveQueue(msgs, queue)])

\* C34: saving the queue and loading it back gives the same list of
\* messages: the same ids in the same order, with the same status, priority,
\* attempts, maxAttempts, payload and error; createdAt, lastAttempt and
\* nextRetry are the same instants, and an absent field is absent.
C34_RoundTrip ==
    /\ C34_Reloaded = [ i \in DOMAIN queue |-> msgs[queue[i]] ]
    /\ QueueOf(C34_Reloaded) = queue

\* The queue holds a message loaded at startup, created 200 s before it on
\* 31 December 1969 and still pending, with no lastAttempt, and a message
\* enqueued in this run that waits for a retry, with an error and a
\* nextRetry one second after its attempt.  The first is written with
\* createdAt 1969-12-31T23:56:40.000Z; both are read back as they are.
C34_Witness ==
    /\ Len(queue) = 2
    /\ \E i, j \in DOMAIN queue :
          /\ msgs[queue[i]].status = "pending"
          /\ msgs[queue[i]].createdAt = -200000
          /\ saveQueue(msgs, queue)[i].createdAt =
                <<"1", "9", "6", "9", "-", "1", "2", "-", "3", "1", "T",
                  "2", "3", ":", "5", "6", ":", "4", "0", ".", "0", "0", "0", "Z">>
          /\ saveQueue(msgs, queue)[i].lastAttempt = None
          /\ C34_Reloaded[i].createdAt = -200000
          /\ C34_Reloaded[i].lastAttempt = None
          /\ msgs[queue[j]].status = "retrying"
          /\ msgs[queue[j]].createdAt >= 0
          /\ C34_Reloaded[j].error # None
          /\ C34_Reloaded[j].nextRetry = Some(msgs[queue[j]].lastAttempt[1] + 1000)
          /\ C34_Reloaded[j].data.to = <<"a@example.com">>

\* C35: a message that was removed from the queue (removeMessage,
\* clearSentMessages, clearFailedMessages) is never attempted afterwards:
\* every attempt that starts is on a message of the queue, also when the
\* running pass had selected the message before its removal.
C35_NoAttemptAfterRemoval ==
    [][ \A id \in LiveIds :
          /\ msgs'[id] # Collected
          /\ msgs[id].status # "sending" /\ msgs'[id].status = "sending"
          => id \in Range(queue') ]_vars

\* The messages the constructor loaded, by id.
C36_Loaded == HeapOf(loadQueue(blob))

\* C36: after a restart, online and with senders that return, every loaded
\* message whose status is neither sent nor failed is eventually attempted
\* (its attempts grow beyond the loaded count); in particular a message
\* loaded in status sending does not stay as it was loaded.
C36_LoadedAttempted ==
    \A id \in 1..MaxLoadMsgs :
       (/\ id \in DOMAIN C36_Loaded
        /\ C36_Loaded[id].status \notin {"sent", "failed"}
        /\ msgs[id] = C36_Loaded[id])
       ~> (id \in DOMAIN C36_Loaded /\ msgs[id] # C36_Loaded[id])

\* C37: in a run from an empty queue, whenever the processing flag is false
\* no message of the queue is sending; a message is sending only from the
\* start of an attempt to the recording of its outcome, that is while the
\* running pass awaits the sender called for it.
C37_SendingOnlyInPass ==
    /\ ~isProcessing => \A id \in QueueIds : msgs[id].status # "sending"
    /\ \A id \in LiveIds :
          msgs[id].status = "sending" =>
             /\ isProcessing
             /\ msgs[id].attempts >= 1 /\ msgs[id].lastAttempt # None
             /\ \E k \in DOMAIN passes :
                   /\ passes[k].pc = "sending"
                   /\ passes[k].pending[passes[k].idx] = id

\* A pass over two messages has ended: one is sent, the other waits for a
\* retry, none is sending and the flag is false.
C37_Witness ==
    /\ ~isProcessing /\ passes = <<>> /\ Len(queue) = 2
    /\ \E id \in QueueIds : msgs[id].status = "sent"
    /\ \E id \in QueueIds : msgs[id].status = "retrying"
    /\ \A id \in QueueIds : msgs[id].attempts = 1

\* C38: every pass that starts ends with the processing flag reset to false,
\* every sender call returning: when the pass completes, when it is left on
\* a loss of connectivity, and when messages are removed or retried while
\* it runs.
C38_PassEnds == isProcessing ~> ~isProcessing

\* A pass was left on a loss of connectivity with a message of its
\* selection not attempted, and the flag is false.
C38_Witness ==
    /\ ~isProcessing /\ passes = <<>> /\ ~isOnline
    /\ halted # <<>>
    /\ \E id \in QueueIds : msgs[id].status \in {"sent", "retrying"}

\* The delays of the retry ladder below its last entry.
C39_Assignable == { RETRY_DELAYS[i] : i \in 1..(DefaultMaxAttempts - 1) }

\* C39: with maxAttempts = 5, whenever a step assigns nextRetry of a
\* message, the assigned time lies 1 s, 5 s, 30 s or 60 s after the clock
\* reading of the step: the last entry of the ladder, 300 s, is never
\* assigned.
C39_AssignedDelays ==
    [][\A id \in LiveIds2 :
          (/\ msgs[id].maxAttempts = 5
           /\ msgs'[id].nextRetry # None
           /\ msgs'[id].nextRetry # msgs[id].nextRetry)
          => /\ msgs'[id].nextRetry[1] - now' \in C39_Assignable
             /\ msgs'[id].nextRetry[1] - now' # RETRY_DELAYS[Len(RETRY_DELAYS)]]_vars

\* A message has failed for good at its fifth attempt: the time assigned
\* after the fourth failure, 60 s later, is the last one it was given.
C39_Witness ==
    \E id \in LiveIds :
       /\ msgs[id].status = "failed" /\ msgs[id].attempts = 5
       /\ msgs[id].maxAttempts = 5
       /\ msgs[id].nextRetry # None /\ msgs[id].lastAttempt # None
       /\ msgs[id].nextRetry[1] = msgs[id].lastAttempt[1]
       /\ now = msgs[id].lastAttempt[1]

====
